---- MODULE Spec2Model ----
(***************************************************************************)
(* A model of graphjoiner: the batched join resolution of                  *)
(* graphjoiner/__init__.py and the request building of                     *)
(* graphjoiner/requests.py.                                                 *)
(*                                                                         *)
(* SpecJoin runs one level of JoinType.fetch step by step over a parent    *)
(* type with one relationship, for every join specification, cardinality   *)
(* policy and table contents within the bounds.                            *)
(*                                                                         *)
(* Spec runs _execute over the schema of tests/test_graphjoiner_graphql.py *)
(* for families of query documents and every table contents within the     *)
(* bounds: validation, the building of the request, the root fetch.        *)
(* SpecExtract, SpecErrors, SpecReject, SpecAlias and SpecInternal run the *)
(* same _execute over other families of documents and configurations.      *)
(*                                                                         *)
(* SpecRefine runs a relationship of graphjoiner/declarative with added    *)
(* arguments: build_query, filter, the refiners, the fetch of the target.  *)
(*                                                                         *)
(* SpecMutation runs _execute over mutation documents against the box of   *)
(* tests/declarative/test_declarative_mutations.py.                        *)
(*                                                                         *)
(* SpecSubtype calls is_subtype of graphjoiner/schemas.py on the types of  *)
(* two schemas whose types may refer to themselves and to each other.      *)
(*                                                                         *)
(* SpecMerge calls greatest_common_subtype on lists of types and then      *)
(* is_subtype of the merged type and each of them.  SpecTypes publishes    *)
(* the field of a relationship for every policy and target type.           *)
(* SpecContext runs the relationships of one parent with one context and   *)
(* one parent query.  SpecShared, SpecFields and SpecExpand run _execute   *)
(* or the building of the request over further families of documents.      *)
(***************************************************************************)
EXTENDS Integers, Sequences, FiniteSets, TLC

VARIABLES
    all_authors, \* the rows of the author table (tests/test_graphjoiner_graphql.py)
    all_books,   \* the rows of the book table
    books_join,  \* the join of Author.books, a sequence of <<parent field, child field>>
    books_policy, \* the cardinality policy of Author.books
    fault,       \* the collaborator that raises an exception when called, "none" for none
    internal_fields, \* the fields of Book declared with internal=True
    source,      \* the query: the definitions the query text denotes
    doc,         \* the parsed document: its definitions and the lists of its selection sets
    pc,          \* position in _execute
    doc_request, \* the request built from the document
    calls,       \* the calls of build_query and fetch_immediates so far
    outcome,     \* the ExecutionResult _execute returns
    exception,   \* the exception that leaves _execute, "" when none
    jpc,        \* SpecJoin: position in JoinType.fetch
    jresults,   \* SpecJoin: `results`, the parent rows as dicts (JoinType.fetch)
    jindex,     \* SpecJoin: `children`, the RelationshipResults of the relationship
    jfetched,   \* SpecJoin: the Results the child fetch returned
    jrow,       \* SpecJoin: number of parent rows already given their child value
    jerror,     \* SpecJoin: the GraphQLError raised, "" when none
    jcalls,     \* SpecJoin: the calls of build_query and fetch_immediates so far
    jreturn,    \* SpecJoin: the Results JoinType.fetch returns
    _args,      \* SpecRefine: RelationshipDefinition._args, the registered arguments
    _filter,    \* SpecRefine: RelationshipDefinition._filter, "" for None
    dpc,        \* SpecRefine: position in the definition and the fetch of the relationship
    dargs,      \* SpecRefine: request.args, the arguments the query supplied
    dquery,     \* SpecRefine: `query`, the child query in progress
    darg,       \* SpecRefine: position of the loop over _args
    dlog,       \* SpecRefine: the calls made so far, with what each received and returned
    box,        \* SpecMutation: box.value, what the mutations write
    mnext,      \* SpecMutation: position of the loop over the relationship selections
    mquery,     \* SpecMutation: the query build_query returned for the selection in hand
    mresult,    \* SpecMutation: `result`, the one row of the root, as a dict
    mlog,       \* SpecMutation: the calls of build_query and __mutate__ so far
    s_defs,     \* SpecSubtype: the object and input object types, by identity
    s_order,    \* SpecSubtype: the order in which dicts and sets give their keys
    s_subtype,  \* SpecSubtype: the subtype is_subtype is called with
    s_supertype, \* SpecSubtype: the supertype is_subtype is called with
    s_pc,       \* SpecSubtype: position: "call" before is_subtype, "returned" after
    s_answer,   \* SpecSubtype: what is_subtype returned, with `seen` and the calls made
    g_types,    \* SpecMerge: `types`, the list greatest_common_subtype is called with
    g_pc,       \* SpecMerge: position: "call", "merged" after the two merges, "checked"
    g_merged,   \* SpecMerge: what greatest_common_subtype(types) returned
    g_reversed, \* SpecMerge: what greatest_common_subtype(list(reversed(types))) returned
    g_checks,   \* SpecMerge: what is_subtype(merged, type_) returned for each type_
    t_policy,   \* SpecTypes: the policy of the relationship Root.value
    t_target,   \* SpecTypes: what to_graphql_type() of its target returns
    t_pc,       \* SpecTypes: position: "call" before Root.to_graphql_type(), "returned" after
    t_type,     \* SpecTypes: the type Root.to_graphql_type() returned
    c_heap,     \* SpecContext: the query objects (dicts), by identity
    c_siblings, \* SpecContext: the relationships of the level: join_query, supplied args
    c_pc,       \* SpecContext: position in JoinType.fetch and build_query_with_args
    c_sibling,  \* SpecContext: the relationship in hand
    c_arg,      \* SpecContext: position of the loop over the arguments
    c_query,    \* SpecContext: `query` of build_query_with_args, a reference
    c_log       \* SpecContext: the calls so far: the query each was given, and what it held

config == <<all_authors, all_books, books_join, books_policy, fault, internal_fields>>

jvars == <<jpc, jresults, jindex, jfetched, jrow, jerror, jcalls, jreturn>>

evars == <<source, doc, pc, doc_request, calls, outcome, exception>>

dvars == <<_args, _filter, dpc, dargs, dquery, darg, dlog>>

mvars == <<box, mnext, mquery, mresult, mlog>>

gvars == <<g_types, g_pc, g_merged, g_reversed, g_checks>>

tvars == <<t_policy, t_target, t_pc, t_type>>

cvars == <<c_heap, c_siblings, c_pc, c_sibling, c_arg, c_query, c_log>>

svars == <<s_defs, s_order, s_subtype, s_supertype, s_pc, s_answer, gvars, tvars, cvars>>

ovars == <<dvars, mvars, svars>>

vars == <<config, evars, jvars, ovars>>

\* the relationship definition is not used
RefineIdle ==
    /\ _args = <<>>
    /\ _filter = ""
    /\ dpc = "idle"
    /\ dargs = <<>>
    /\ dquery = <<>>
    /\ darg = 0
    /\ dlog = <<>>

\* no mutation is running
MutationIdle ==
    /\ box = 0
    /\ mnext = 0
    /\ mquery = <<>>
    /\ mresult = <<>>
    /\ mlog = <<>>

\* greatest_common_subtype is not called
MergeIdle ==
    /\ g_types = <<>>
    /\ g_pc = "idle"
    /\ g_merged = <<>>
    /\ g_reversed = <<>>
    /\ g_checks = <<>>

\* no type is published
TypesIdle ==
    /\ t_policy = ""
    /\ t_target = <<>>
    /\ t_pc = "idle"
    /\ t_type = <<>>

\* no level of dict queries is fetched
ContextIdle ==
    /\ c_heap = <<>>
    /\ c_siblings = <<>>
    /\ c_pc = "idle"
    /\ c_sibling = 0
    /\ c_arg = 0
    /\ c_query = 0
    /\ c_log = <<>>

\* greatest_common_subtype is not called and no type is published
SchemasIdle == MergeIdle /\ TypesIdle /\ ContextIdle

\* is_subtype is not called
SubtypeIdle ==
    /\ SchemasIdle
    /\ s_defs = <<>>
    /\ s_order = "forward"
    /\ s_subtype = <<>>
    /\ s_supertype = <<>>
    /\ s_pc = "idle"
    /\ s_answer = <<>>

OthersIdle == RefineIdle /\ MutationIdle /\ SubtypeIdle

-----------------------------------------------------------------------------
(* Bounds *)

MaxParents == 2
MaxChildren == 3
MaxRows == 2

-----------------------------------------------------------------------------
(* Values: what a row, a Result or the response data can hold *)

Null == [k |-> "null"]
Scalar(n) == [k |-> "s", v |-> n]
Object(f) == [k |-> "o", f |-> f]
ListOf(s) == [k |-> "l", items |-> s]

Range(s) == {s[i] : i \in DOMAIN s}

RECURSIVE Flatten(_)
Flatten(ss) == IF ss = <<>> THEN <<>> ELSE Head(ss) \o Flatten(Tail(ss))

-----------------------------------------------------------------------------
(* util.py *)

\* func is the function of the values it is applied to
partition(func, values) ==
    <<SelectSeq(values, LAMBDA value: func[value]),
      SelectSeq(values, LAMBDA value: ~func[value])>>

RECURSIVE unique_from(_, _, _)
unique_from(values, seen, result) ==
    IF values = <<>> THEN result
    ELSE LET value == Head(values)
             key_value == value.key
         IN IF key_value \notin seen
            THEN unique_from(Tail(values), seen \cup {key_value}, Append(result, value))
            ELSE unique_from(Tail(values), seen, result)

\* a unique that keeps every value
every_value(values) == values

unique(values) == unique_from(values, {}, <<>>)

-----------------------------------------------------------------------------
(* Requests and field descriptors *)

\* Field.target = None, Field.args = {}
NoTarget == [kind |-> "None", name |-> ""]

\* field=None, the field of the request of the whole operation
NoField == [rel |-> FALSE, attr |-> "", target |-> NoTarget, args |-> {}, internal |-> FALSE]

Request(key, field, args, selections, join_selections) ==
    [key |-> key, field |-> field, args |-> args,
     selections |-> selections, join_selections |-> join_selections]

\* getattr(field, "internal", False) is False unless the field is declared internal
Field(attr) ==
    [rel |-> FALSE, attr |-> attr, target |-> NoTarget, args |-> {}, internal |-> FALSE]

InternalField(attr, internal) == [Field(attr) EXCEPT !.internal = internal]

JoinKeys(join) == [i \in DOMAIN join |-> join[i][1]]
JoinValues(join) == [i \in DOMAIN join |-> join[i][2]]

_parent_join_keys(join) ==
    [i \in DOMAIN join |-> "_graphjoiner_joinToChildrenKey_" \o JoinKeys(join)[i]]

Relationship(target, process_results, build_query, join, args) ==
    [rel |-> TRUE, target |-> target, process_results |-> process_results,
     build_query |-> build_query, join |-> join, args |-> args, internal |-> FALSE]

-----------------------------------------------------------------------------
(* Cardinality policies *)

Returned(value) == [err |-> "", value |-> value]
Raised(message) == [err |-> message, value |-> Null]

\* a single that gives null for no value
_single_null_if_none(values) ==
    IF Len(values) = 0 THEN Returned(Null)
    ELSE IF Len(values) = 1 THEN Returned(values[1])
    ELSE Raised("Expected 1 value but got " \o ToString(Len(values)))

_single(values) ==
    IF Len(values) = 1 THEN Returned(values[1])
    ELSE Raised("Expected 1 value but got " \o ToString(Len(values)))

\* a single_or_null that takes the first of several values
_single_or_none_first_of_many(values) ==
    IF Len(values) = 0 THEN Returned(Null)
    ELSE Returned(values[1])

_single_or_none(values) ==
    IF Len(values) = 0 THEN Returned(Null)
    ELSE IF Len(values) > 1
    THEN Raised("Expected up to 1 value but got " \o ToString(Len(values)))
    ELSE Returned(values[1])

\* a first_or_null that takes the last value
_first_or_none_last(values) ==
    IF Len(values) = 0 THEN Returned(Null)
    ELSE Returned(values[Len(values)])

_first_or_none(values) ==
    IF Len(values) = 0 THEN Returned(Null)
    ELSE Returned(values[1])

\* a many that gives null for no value
_many_null_if_none(values) ==
    IF Len(values) = 0 THEN Returned(Null) ELSE Returned(ListOf(values))

_many(values) == Returned(ListOf(values))

Policies == {"single", "single_or_null", "first_or_null", "many"}

process_results(policy, values) ==
    CASE policy = "single" -> _single(values)
      [] policy = "single_or_null" -> _single_or_none(values)
      [] policy = "first_or_null" -> _first_or_none(values)
      [] policy = "many" -> _many(values)

-----------------------------------------------------------------------------
(* RelationshipResults *)

Result(value, join_values) == [value |-> value, join_values |-> join_values]

\* the order of Python tuples of numbers
RECURSIVE TupleLess(_, _)
TupleLess(a, b) ==
    IF a = <<>> THEN b # <<>>
    ELSE IF b = <<>> THEN FALSE
    ELSE IF Head(a).v < Head(b).v THEN TRUE
    ELSE IF Head(b).v < Head(a).v THEN FALSE
    ELSE TupleLess(Tail(a), Tail(b))

\* sorted(results, key=key_func): a stable sort
RECURSIVE insert_sorted(_, _)
insert_sorted(sorted_results, result) ==
    IF sorted_results = <<>> THEN <<result>>
    ELSE IF TupleLess(result.join_values, Head(sorted_results).join_values)
         THEN <<result>> \o sorted_results
         ELSE <<Head(sorted_results)>> \o insert_sorted(Tail(sorted_results), result)

RECURSIVE sorted(_)

\* no sort before groupby
sorted_not(results) == results

sorted(results) ==
    IF results = <<>> THEN <<>>
    ELSE insert_sorted(sorted(SubSeq(results, 1, Len(results) - 1)), results[Len(results)])

\* itertools.groupby: runs of consecutive results of equal key, a sequence of
\* <<key, values>>
RECURSIVE groupby(_)
groupby(results) ==
    IF results = <<>> THEN <<>>
    ELSE LET rest == groupby(Tail(results))
             first == Head(results)
         IN IF rest # <<>> /\ rest[1][1] = first.join_values
            THEN <<<<first.join_values, <<first.value>> \o rest[1][2]>>>> \o Tail(rest)
            ELSE <<<<first.join_values, <<first.value>>>>>> \o rest

\* dict(pairs): a later pair of the same key replaces an earlier one
dict(pairs) ==
    [key \in {pairs[i][1] : i \in DOMAIN pairs} |->
        pairs[CHOOSE i \in DOMAIN pairs :
            /\ pairs[i][1] = key
            /\ \A j \in DOMAIN pairs : pairs[j][1] = key => j <= i][2]]

RelationshipResults(results) == dict(groupby(sorted(results)))

_parent_join_values(parent_join_keys, parent) ==
    [i \in DOMAIN parent_join_keys |-> parent[parent_join_keys[i]]]

RelationshipResults_get(index, field, parent) ==
    LET key == _parent_join_values(_parent_join_keys(field.join), parent)
    IN process_results(field.process_results,
                       IF key \in DOMAIN index THEN index[key] ELSE <<>>)

-----------------------------------------------------------------------------
(* The schema of tests/test_graphjoiner_graphql.py.  Author.books takes its  *)
(* join and its policy from the configuration, so that every join           *)
(* specification and every policy is run.                                    *)

JoinType(name) == [kind |-> "JoinType", name |-> name]

\* ScalarJoinType(target, field_name), target a JoinType given by its name
ScalarJoinType(target, field_name) ==
    [kind |-> "ScalarJoinType", name |-> target, field_name |-> field_name]

\* extract: relationship.copy(target=ScalarJoinType(relationship.target, field_name))
extract(relationship, field_name) ==
    [relationship EXCEPT !.target = ScalarJoinType(relationship.target.name, field_name),
                         !.internal = FALSE]

Fields(type) ==
    CASE type = "Root" ->
            [books |-> Relationship(JoinType("Book"), "many", "all_books", <<>>, {}),
             book |-> Relationship(JoinType("Book"), "single", "book_query", <<>>, {"id"}),
             author |-> Relationship(JoinType("Author"), "single", "author_query", <<>>,
                                     {"id"})]
      [] type = "Author" ->
            LET books == Relationship(JoinType("Book"), books_policy, "all_books",
                                      books_join, {})
            IN [id |-> Field("id"),
                name |-> Field("name"),
                books |-> books,
                bookTitles |-> extract(books, "title")]
      [] type = "Book" ->
            LET author == Relationship(JoinType("Author"), "single", "all_authors",
                                       <<<<"authorId", "id">>>>, {})
            IN [id |-> Field("id"),
                title |-> Field("title"),
                authorId |-> InternalField("author_id", "authorId" \in internal_fields),
                author |-> author,
                booksBySameAuthor |-> extract(author, "books")]
      [] type = "Mutation" ->
            [updateBox |-> Relationship(JoinType("BoxMutation"), "single", "update_box",
                                        <<>>, {"value"}),
             addToBox |-> Relationship(JoinType("BoxMutation"), "single", "add_to_box",
                                       <<>>, {"value"})]
      [] type = "BoxMutation" ->
            [value |-> Field("value")]

\* ScalarJoinType._field
_field(target) == Fields(target.name)[target.field_name]

\* Value.fields(): JoinType.fields and ScalarJoinType.fields
Value_fields(target) ==
    IF target.kind = "JoinType" THEN Fields(target.name)
    ELSE IF _field(target).rel THEN Fields(_field(target).target.name)
    ELSE <<>>

\* the build_query functions of the schema: (args, parent_query, context) -> query
filter_id(args, rows) ==
    IF "id" \in DOMAIN args
    THEN SelectSeq(rows, LAMBDA row: row.id = args.id)
    ELSE rows

build_query(name, args, parent_query) ==
    CASE name = "all_books" -> all_books
      [] name = "all_authors" -> all_authors
      [] name = "book_query" -> filter_id(args, all_books)
      [] name = "author_query" -> filter_id(args, all_authors)

\* fetch_immediates_from_obj, and RootJoinType's lambda *_: [()]
fetch_immediates(type, selections, query) ==
    IF type = "Root" THEN <<<<>>>>
    ELSE [r \in DOMAIN query |->
            [i \in DOMAIN selections |-> query[r][selections[i].field.attr]]]

-----------------------------------------------------------------------------
(* Relationship and JoinType *)

parent_join_selections(field, parent) ==
    [i \in DOMAIN field.join |->
        Request(_parent_join_keys(field.join)[i], Fields(parent)[JoinKeys(field.join)[i]],
                <<>>, <<>>, <<>>)]

child_join_selections(field) ==
    [i \in DOMAIN field.join |->
        Request("_graphjoiner_joinToParentKey_" \o JoinValues(field.join)[i],
                Fields(field.target.name)[JoinValues(field.join)[i]],
                <<>>, <<>>, <<>>)]

\* dict(zip(keys, row)); the keys are distinct
row_dict(keys, row) ==
    [key \in Range(keys) |-> row[CHOOSE i \in DOMAIN keys : keys[i] = key]]

is_relationship(selection) == selection.field.rel

partitioned(request) ==
    partition([selection \in Range(request.selections) |-> is_relationship(selection)],
              request.selections)

Reverse(values) == [i \in DOMAIN values |-> values[Len(values) + 1 - i]]

\* the relationship selections, last first
relationship_selections_reversed(request) == Reverse(partitioned(request)[1])

relationship_selections_of(request) == partitioned(request)[1]

immediate_selections_of(request, type) ==
    LET requested_immediate_selections == partitioned(request)[2]
        join_to_children_selections ==
            Flatten([i \in DOMAIN relationship_selections_of(request) |->
                parent_join_selections(relationship_selections_of(request)[i].field, type)])
    IN unique(requested_immediate_selections \o request.join_selections
                \o join_to_children_selections)

selection_keys(selections) == [i \in DOMAIN selections |-> selections[i].key]

\* lines 386-389: the rows of fetch_immediates as dicts
fetch_rows(type, request, query) ==
    LET immediate_selections == immediate_selections_of(request, type)
        keys == selection_keys(immediate_selections)
        rows == fetch_immediates(type, immediate_selections, query)
    IN [r \in DOMAIN rows |-> row_dict(keys, rows[r])]

\* Results whose value is the whole row
to_results_of_rows(request, results) ==
    [r \in DOMAIN results |->
        Result(Object(results[r]),
               [i \in DOMAIN request.join_selections |->
                    results[r][request.join_selections[i].key]])]

\* lines 396-402
to_results(request, results) ==
    [r \in DOMAIN results |->
        Result(Object([key \in Range(selection_keys(request.selections)) |-> results[r][key]]),
               [i \in DOMAIN request.join_selections |->
                    results[r][request.join_selections[i].key]])]

\* one call of a collaborator
Call(op, path, what, arg) == [op |-> op, path |-> path, what |-> what, arg |-> arg]

Fetched(err, results, log) == [err |-> err, results |-> results, log |-> log]

\* the exceptions of the collaborators, none of them a GraphQLError
Faults == {"fetch_immediates", "build_query"}
Exception(message) == "Exception: " \o message

\* lines 393-394: for result in results: result[selection.key] = children.get(result)
RECURSIVE attach(_, _, _, _)

\* an attach that gives a parent row null where the policy rejects
attach_null_if_rejected(index, selection, results, r) ==
    IF r > Len(results) THEN [err |-> "", results |-> results]
    ELSE LET got == RelationshipResults_get(index, selection.field, results[r])
         IN attach(index, selection,
                   [results EXCEPT ![r] = (selection.key :> got.value) @@ results[r]],
                   r + 1)

attach(index, selection, results, r) ==
    IF r > Len(results) THEN [err |-> "", results |-> results]
    ELSE LET got == RelationshipResults_get(index, selection.field, results[r])
         IN IF got.err # "" THEN [err |-> got.err, results |-> results]
            ELSE attach(index, selection,
                        [results EXCEPT ![r] = (selection.key :> got.value) @@ results[r]],
                        r + 1)

RECURSIVE JoinType_fetch(_, _, _, _)
RECURSIVE Relationship_fetch(_, _, _)
RECURSIVE fetch_relationships(_, _, _, _, _)

\* a ScalarJoinType.fetch that asks the target for the field alone, without the join
\* selections of the request
ScalarJoinType_request_without_join(target, request) ==
    LET field_request == Request(target.field_name, _field(target), <<>>,
                                 request.selections, <<>>)
    IN Request(request.key, request.field, request.args, <<field_request>>, <<>>)

\* ScalarJoinType.fetch, lines 335-336: the request handed to the fetch of the target,
\* assoc(request, selections=[field_request])
ScalarJoinType_request(target, request) ==
    LET field_request == Request(target.field_name, _field(target), <<>>,
                                 request.selections, <<>>)
    IN [request EXCEPT !.selections = <<field_request>>]

\* ScalarJoinType.fetch, lines 337-340: each Result holds the value of the one field
ScalarJoinType_results(target, fetched) ==
    Fetched(fetched.err,
            [r \in DOMAIN fetched.results |->
                Result(fetched.results[r].value.f[target.field_name],
                       fetched.results[r].join_values)],
            fetched.log)

\* Relationship.fetch, lines 197-202: the RelationshipResults of what the fetch of the
\* target gave
Relationship_results(call, fetched) ==
    [err |-> fetched.err,
     index |-> IF fetched.err = "" THEN RelationshipResults(fetched.results) ELSE <<>>,
     results |-> fetched.results,
     log |-> <<call>> \o fetched.log]

\* what self.target.fetch gives from the JoinType.fetch of the type it names:
\* JoinType.fetch itself, or ScalarJoinType.fetch, lines 337-340
target_results(target, fetched) ==
    IF target.kind = "ScalarJoinType" THEN ScalarJoinType_results(target, fetched)
    ELSE fetched

\* Relationship.fetch: the RelationshipResults of one relationship selection
Relationship_fetch(request, parent_query, path) ==
    LET field == request.field
        query == build_query(field.build_query, request.args, parent_query)
        child_request == [request EXCEPT !.join_selections = child_join_selections(field)]
        call == Call("build_query", path, field.build_query, request.args)
    IN IF fault = "build_query"
       THEN [err |-> Exception("build_query"), index |-> <<>>, results |-> <<>>,
             log |-> <<call>>]
       ELSE Relationship_results(call,
                target_results(field.target,
                    JoinType_fetch(field.target.name,
                                   IF field.target.kind = "ScalarJoinType"
                                   THEN ScalarJoinType_request(field.target, child_request)
                                   ELSE child_request,
                                   query, path)))

\* the results of the selections after the first, after the log of the first
after_log(log, rest) == Fetched(rest.err, rest.results, log \o rest.log)

\* lines 393-394 for one selection, and the selections after it
attach_and_fetch_rest(selections, n, attached, log, query, path) ==
    IF attached.err # "" THEN Fetched(attached.err, <<>>, log)
    ELSE after_log(log, fetch_relationships(selections, n + 1, attached.results, query, path))

\* a fetch of the children for each parent row
children_per_row(selections, n, results, query, path, children) ==
    IF children.err # ""
    THEN Fetched(children.err, <<>>, Flatten([r \in DOMAIN results |-> children.log]))
    ELSE attach_and_fetch_rest(selections, n, attach(children.index, selections[n], results, 1),
                               Flatten([r \in DOMAIN results |-> children.log]), query, path)

fetch_relationships_per_row(selections, n, results, query, path) ==
    IF n > Len(selections) THEN Fetched("", results, <<>>)
    ELSE children_per_row(selections, n, results, query, path,
            Relationship_fetch(selections[n], query, Append(path, selections[n].key)))

\* lines 392-394: the children of one selection are fetched and given to the rows
fetch_children(selections, n, results, query, path, children) ==
    IF children.err # "" THEN Fetched(children.err, <<>>, children.log)
    ELSE attach_and_fetch_rest(selections, n, attach(children.index, selections[n], results, 1),
                               children.log, query, path)

\* lines 391-394: for selection in relationship_selections
fetch_relationships(selections, n, results, query, path) ==
    IF n > Len(selections) THEN Fetched("", results, <<>>)
    ELSE fetch_children(selections, n, results, query, path,
            Relationship_fetch(selections[n], query, Append(path, selections[n].key)))

\* lines 396-402: the Results of the rows, after the call of fetch_immediates
JoinType_results(request, call, resolved) ==
    IF resolved.err # "" THEN Fetched(resolved.err, <<>>, <<call>> \o resolved.log)
    ELSE Fetched("", to_results(request, resolved.results), <<call>> \o resolved.log)

JoinType_fetch(type, request, query, path) ==
    LET call == Call("fetch_immediates", path, type,
                     selection_keys(immediate_selections_of(request, type)))
    IN IF fault = "fetch_immediates" /\ type # "Root"
       THEN Fetched(Exception("fetch_immediates"), <<>>, <<call>>)
       ELSE JoinType_results(request, call,
                fetch_relationships(relationship_selections_of(request), 1,
                                    fetch_rows(type, request, query), query, path))

-----------------------------------------------------------------------------
(* Query documents.  A query is the tree the query text denotes; parse gives  *)
(* each selection set a list of its own in `lists`, and a node names the     *)
(* list of its selection set by its index (0 for no selection set), so that   *)
(* two nodes can share one list, as copy() of a node makes them do.           *)

Node(kind, alias, name, arguments, directives, selections) ==
    [kind |-> kind, alias |-> alias, name |-> name, arguments |-> arguments,
     directives |-> directives, selections |-> selections]

Ast(node, selection_set) ==
    [kind |-> node.kind, alias |-> node.alias, name |-> node.name,
     arguments |-> node.arguments, directives |-> node.directives,
     selection_set |-> selection_set]

RECURSIVE parse_selections(_, _)
RECURSIVE parse_selection(_, _)

parse_selection(node, lists) ==
    IF node.selections = <<>> THEN [ast |-> Ast(node, 0), lists |-> lists]
    ELSE LET parsed == parse_selections(node.selections, lists)
         IN [ast |-> Ast(node, Len(parsed.lists) + 1),
             lists |-> Append(parsed.lists, parsed.asts)]

parse_selections(nodes, lists) ==
    IF nodes = <<>> THEN [asts |-> <<>>, lists |-> lists]
    ELSE LET first == parse_selection(Head(nodes), lists)
             rest == parse_selections(Tail(nodes), first.lists)
         IN [asts |-> <<first.ast>> \o rest.asts, lists |-> rest.lists]

\* graphql.language.parser.parse: definitions and the lists of their selection sets
parse(definitions) ==
    LET parsed == parse_selections(definitions, <<>>)
    IN [definitions |-> parsed.asts, lists |-> parsed.lists]

-----------------------------------------------------------------------------
(* requests.py *)

_field_name(ast) == ast.name

field_key(ast) == IF ast.alias = "" THEN _field_name(ast) ELSE ast.alias

\* "yes", "no", or the exception raised
RECURSIVE _should_include_directives(_)
_should_include_directives(directives) ==
    IF directives = <<>> THEN "yes"
    ELSE LET directive == Head(directives)
         IN IF directive.name = "skip"
            THEN IF directive.if = TRUE THEN "no"
                 ELSE _should_include_directives(Tail(directives))
            ELSE IF directive.name = "include"
            THEN IF directive.if = FALSE THEN "no"
                 ELSE _should_include_directives(Tail(directives))
            ELSE "Exception: Unknown directive"

\* a check of @skip alone
_should_include_node_skip_only(node) ==
    _should_include_directives(SelectSeq(node.directives, LAMBDA d: d.name # "include"))

_should_include_node(node) == _should_include_directives(node.directives)

Collected(err, field_selections) == [err |-> err, field_selections |-> field_selections]

\* _add_fields over the selections of one selection set, appending to field_selections
RECURSIVE _add_fields(_, _, _, _)
_add_fields(selections, field_selections, fragments, lists) ==
    IF selections = <<>> THEN Collected("", field_selections)
    ELSE LET selection == Head(selections)
             include == _should_include_node(selection)
             added ==
                 IF include = "no" THEN Collected("", field_selections)
                 ELSE IF include # "yes" THEN Collected(include, field_selections)
                 ELSE IF selection.kind = "Field"
                 THEN Collected("", Append(field_selections, selection))
                 ELSE IF selection.kind = "FragmentSpread"
                 THEN IF selection.name \in DOMAIN fragments
                      THEN _add_fields(lists[fragments[selection.name]], field_selections,
                                       fragments, lists)
                      ELSE Collected("KeyError", field_selections)
                 ELSE _add_fields(lists[selection.selection_set], field_selections,
                                  fragments, lists)
         IN IF added.err # "" THEN added
            ELSE _add_fields(Tail(selections), added.field_selections, fragments, lists)

_collect_fields(ast, fragments, lists) ==
    _add_fields(lists[ast.selection_set], <<>>, fragments, lists)

Merged(err, merged, lists) == [err |-> err, merged |-> merged, lists |-> lists]

position_of(merged, key) == CHOOSE i \in DOMAIN merged : field_key(merged[i]) = key

\* _merge_fields: `merged` is the OrderedDict as the sequence of its values.  copy() of
\* a node and of its selection set shares the list of selections with the original, and
\* += on that list extends it in place.
RECURSIVE _merge_fields_from(_, _, _)
_merge_fields_from(selections, merged, lists) ==
    IF selections = <<>> THEN Merged("", merged, lists)
    ELSE LET selection == Head(selections)
             key == field_key(selection)
         IN IF key \in {field_key(merged[i]) : i \in DOMAIN merged}
            THEN IF selection.selection_set # 0
                 THEN LET existing == merged[position_of(merged, key)]
                      IN IF existing.selection_set = 0
                         THEN Merged("AttributeError", merged, lists)
                         ELSE _merge_fields_from(Tail(selections), merged,
                                 [lists EXCEPT ![existing.selection_set] =
                                     @ \o lists[selection.selection_set]])
                 ELSE _merge_fields_from(Tail(selections), merged, lists)
            ELSE _merge_fields_from(Tail(selections), Append(merged, selection), lists)

_merge_fields(selections, lists) == _merge_fields_from(selections, <<>>, lists)

\* get_argument_values: the values of the arguments the field defines
get_argument_values(arg_defs, arguments) ==
    [name \in (DOMAIN arguments) \cap arg_defs |-> arguments[name]]

Built(err, request, lists) == [err |-> err, request |-> request, lists |-> lists]

RECURSIVE request_from_graphql_ast(_, _, _, _, _)
RECURSIVE _graphql_selections(_, _, _, _)
RECURSIVE _requests_from_selections(_, _, _, _)

\* the list comprehension of _graphql_selections, with _request_from_selection
_requests_from_selections(field_selections, fields, fragments, lists) ==
    IF field_selections = <<>> THEN Built("", <<>>, lists)
    ELSE LET selection == Head(field_selections)
         IN IF _field_name(selection) = "__schema"
            THEN _requests_from_selections(Tail(field_selections), fields, fragments, lists)
            ELSE IF _field_name(selection) \notin DOMAIN fields
            THEN Built("KeyError", <<>>, lists)
            ELSE LET field == fields[_field_name(selection)]
                     first == request_from_graphql_ast(selection, field.target, field,
                                                       fragments, lists)
                 IN IF first.err # "" THEN Built(first.err, <<>>, first.lists)
                    ELSE LET rest == _requests_from_selections(Tail(field_selections), fields,
                                                               fragments, first.lists)
                         IN Built(rest.err, <<first.request>> \o rest.request, rest.lists)

_graphql_selections(ast, root, fragments, lists) ==
    IF ast.selection_set = 0 THEN Built("", <<>>, lists)
    ELSE IF root.kind = "None" THEN Built("AttributeError", <<>>, lists)
    ELSE LET collected == _collect_fields(ast, fragments, lists)
             merged == _merge_fields(collected.field_selections, lists)
         IN IF collected.err # "" THEN Built(collected.err, <<>>, lists)
            ELSE IF merged.err # "" THEN Built(merged.err, <<>>, merged.lists)
            ELSE _requests_from_selections(merged.merged, Value_fields(root), fragments,
                                           merged.lists)

request_from_graphql_ast(ast, root, field, fragments, lists) ==
    LET key == IF ast.kind = "Field" THEN field_key(ast) ELSE ""
        args == IF field = NoField THEN <<>>
                ELSE get_argument_values(field.args, ast.arguments)
        selections == _graphql_selections(ast, root, fragments, lists)
    IN Built(selections.err,
             Request(key, field, args, selections.request, <<>>),
             selections.lists)

operations_of(document) ==
    {i \in DOMAIN document.definitions :
        document.definitions[i].kind = "OperationDefinition"}

\* find(lambda selection: selection.name.value == "__schema", selections): the position
\* of the first match, 0 for None, -1 for the AttributeError of an inline fragment, which
\* has no name
RECURSIVE find_schema_selection(_, _)
find_schema_selection(selections, i) ==
    IF i > Len(selections) THEN 0
    ELSE IF selections[i].kind = "InlineFragment" THEN 0 - 1
    ELSE IF selections[i].name = "__schema" THEN i
    ELSE find_schema_selection(selections, i + 1)

request_from_graphql_document(document) ==
    LET fragments ==
            [name \in {document.definitions[i].name :
                        i \in {j \in DOMAIN document.definitions :
                                document.definitions[j].kind = "FragmentDefinition"}} |->
                document.definitions[
                    CHOOSE i \in DOMAIN document.definitions :
                        /\ document.definitions[i].kind = "FragmentDefinition"
                        /\ document.definitions[i].name = name
                        /\ \A j \in DOMAIN document.definitions :
                              (document.definitions[j].kind = "FragmentDefinition"
                               /\ document.definitions[j].name = name) => j <= i
                ].selection_set]
        definition_index == CHOOSE i \in operations_of(document) : TRUE
        operation == document.definitions[definition_index]
        root == IF operation.name = "mutation" THEN JoinType("Mutation") ELSE JoinType("Root")
        schema_selection ==
            find_schema_selection(document.lists[operation.selection_set], 1)
    IN IF Cardinality(operations_of(document)) # 1
       THEN Built("Exception: Expected 1 but got "
                      \o ToString(Cardinality(operations_of(document))),
                  NoField, document.lists)
       ELSE IF schema_selection < 0
       THEN Built("AttributeError", NoField, document.lists)
       ELSE LET query == request_from_graphql_ast(operation, root, NoField, fragments,
                                                  document.lists)
            IN [err |-> query.err, request |-> query.request, lists |-> query.lists,
                schema_query |-> schema_selection]

-----------------------------------------------------------------------------
(* _execute *)

ExecutionResult(data, errors, invalid) == [data |-> data, errors |-> errors, invalid |-> invalid]

NoResult == ExecutionResult(Null, <<>>, FALSE)

NoRequest == Request("", NoField, <<>>, <<>>, <<>>)

\* a published type with the internal fields among its fields
published_fields_with_internal(type) == DOMAIN Fields(type)

\* JoinType.to_graphql_type: the fields of the published type
published_fields(type) == {name \in DOMAIN Fields(type) : ~Fields(type)[name].internal}

fragment_selections(definitions, name) ==
    LET found == SelectSeq(definitions,
                    LAMBDA d: d.kind = "FragmentDefinition" /\ d.name = name)
    IN IF found = <<>> THEN <<>> ELSE found[1].selections

\* the name of the object type a field's published type is of, "" for a scalar:
\* Relationship.to_graphql_field, ScalarJoinType.to_graphql_type
RECURSIVE to_graphql_type(_)
to_graphql_type(field) ==
    IF ~field.rel THEN ""
    ELSE IF field.target.kind = "JoinType" THEN field.target.name
    ELSE to_graphql_type(_field(field.target))

\* graphql.validation.validate, for the rules the documents here can break: a field is a
\* field of the published type, a relationship has a selection set and a plain field has
\* none, a directive is @skip or @include
RECURSIVE validation_errors(_, _, _)
validation_errors(selections, type, definitions) ==
    IF selections = <<>> THEN {}
    ELSE LET node == Head(selections)
             unknown_directives ==
                 {"Unknown directive" : i \in
                    {j \in DOMAIN node.directives :
                        node.directives[j].name \notin {"skip", "include"}}}
             here ==
                 IF node.kind = "Field"
                 THEN IF node.name \notin published_fields(type)
                      THEN {"Cannot query field"}
                      ELSE IF to_graphql_type(Fields(type)[node.name]) # ""
                      THEN IF node.selections = <<>> THEN {"must have a sub selection"}
                           ELSE validation_errors(node.selections,
                                    to_graphql_type(Fields(type)[node.name]), definitions)
                      ELSE IF node.selections # <<>> THEN {"must not have a sub selection"}
                           ELSE {}
                 ELSE IF node.kind = "FragmentSpread"
                 THEN validation_errors(fragment_selections(definitions, node.name), type,
                                        definitions)
                 ELSE validation_errors(node.selections, type, definitions)
         IN unknown_directives \cup here
                \cup validation_errors(Tail(selections), type, definitions)

\* the names of the fragments spread in the selections, and in the fragments they spread
RECURSIVE spreads_in(_, _)
spreads_in(selections, definitions) ==
    UNION {LET node == selections[i]
           IN IF node.kind = "FragmentSpread"
              THEN {node.name}
                    \cup spreads_in(fragment_selections(definitions, node.name), definitions)
              ELSE spreads_in(node.selections, definitions) : i \in DOMAIN selections}

\* the type of the schema an operation is validated against
root_type_of(definition) == IF definition.name = "mutation" THEN "Mutation" ELSE "Root"

\* a validate that lets a relationship go without a selection set
validate_without_leaf_rule(definitions) ==
    LET operations ==
            {j \in DOMAIN definitions : definitions[j].kind = "OperationDefinition"}
        fragment_names ==
            {definitions[j].name :
                j \in {k \in DOMAIN definitions : definitions[k].kind = "FragmentDefinition"}}
        used == UNION {spreads_in(definitions[i].selections, definitions) : i \in operations}
    IN (UNION {validation_errors(definitions[i].selections, root_type_of(definitions[i]),
                                 definitions) :
                i \in operations} \ {"must have a sub selection"})
       \cup {"This anonymous operation must be the only defined operation" : i \in
                {j \in operations : Cardinality(operations) > 1 /\ definitions[j].alias = ""}}
       \cup {"Fragment is never used" : name \in fragment_names \ used}

\* an operation definition holds its name where a field holds its alias
validate(definitions) ==
    LET operations ==
            {j \in DOMAIN definitions : definitions[j].kind = "OperationDefinition"}
        fragment_names ==
            {definitions[j].name :
                j \in {k \in DOMAIN definitions : definitions[k].kind = "FragmentDefinition"}}
        used == UNION {spreads_in(definitions[i].selections, definitions) : i \in operations}
    IN UNION {validation_errors(definitions[i].selections, root_type_of(definitions[i]),
                                 definitions) :
                i \in operations}
       \cup {"This anonymous operation must be the only defined operation" : i \in
                {j \in operations : Cardinality(operations) > 1 /\ definitions[j].alias = ""}}
       \cup {"Fragment is never used" : name \in fragment_names \ used}

\* parse(query) raises GraphQLSyntaxError: the text is no document
syntax_error(definitions) ==
    \/ definitions = <<>>
    \/ \E i \in DOMAIN definitions : definitions[i].kind = "SyntaxError"

\* except GraphQLError: the exceptions of the collaborators are not caught
is_GraphQLError(err) == err \notin {Exception(f) : f \in Faults}

SetToSeq(S) == IF S = {} THEN <<>> ELSE <<CHOOSE x \in S : TRUE>>

\* lines 53-60
Validate ==
    /\ pc = "start"
    /\ IF syntax_error(source)
       THEN /\ outcome' = ExecutionResult(Null, <<"Syntax Error">>, TRUE)
            /\ pc' = "returned"
            /\ UNCHANGED doc
       ELSE /\ doc' = parse(source)
            /\ IF validate(source) # {}
               THEN /\ outcome' = ExecutionResult(Null, SetToSeq(validate(source)), TRUE)
                    /\ pc' = "returned"
               ELSE /\ pc' = "validated"
                    /\ UNCHANGED outcome
    /\ UNCHANGED <<config, source, doc_request, calls, exception, jvars, ovars>>

\* line 75
RequestFromDocument ==
    /\ pc = "validated"
    /\ LET built == request_from_graphql_document(doc)
       IN /\ doc' = [doc EXCEPT !.lists = built.lists]
          /\ IF built.err # ""
             THEN /\ exception' = built.err
                  /\ pc' = "raised"
                  /\ UNCHANGED doc_request
             ELSE /\ doc_request' = built.request
                  /\ pc' = "requested"
                  /\ UNCHANGED exception
    /\ UNCHANGED <<config, source, calls, outcome, jvars, ovars>>

\* lines 76-91: root.fetch(request.query, None)[0].value
RootFetch ==
    /\ pc = "requested"
    /\ LET fetched == JoinType_fetch("Root", doc_request, <<>>, <<>>)
       IN /\ calls' = fetched.log
          /\ IF fetched.err # "" /\ ~is_GraphQLError(fetched.err)
             THEN /\ exception' = fetched.err
                  /\ pc' = "raised"
                  /\ UNCHANGED outcome
             ELSE /\ outcome' = IF fetched.err # ""
                                THEN ExecutionResult(Null, <<fetched.err>>, TRUE)
                                ELSE ExecutionResult(fetched.results[1].value, <<>>, FALSE)
                  /\ pc' = "returned"
                  /\ UNCHANGED exception
    /\ UNCHANGED <<config, source, doc, doc_request, jvars, ovars>>

\* _execute as a function of the query: what it returns, or the exception that leaves it,
\* and the calls it makes
_execute(definitions) ==
    LET built == request_from_graphql_document(parse(definitions))
        fetched == JoinType_fetch("Root", built.request, <<>>, <<>>)
    IN IF syntax_error(definitions)
       THEN [result |-> ExecutionResult(Null, <<"Syntax Error">>, TRUE),
             exception |-> "", calls |-> <<>>]
       ELSE IF validate(definitions) # {}
       THEN [result |-> ExecutionResult(Null, SetToSeq(validate(definitions)), TRUE),
             exception |-> "", calls |-> <<>>]
       ELSE IF built.err # ""
       THEN [result |-> NoResult, exception |-> built.err, calls |-> <<>>]
       ELSE IF fetched.err # "" /\ ~is_GraphQLError(fetched.err)
       THEN [result |-> NoResult, exception |-> fetched.err, calls |-> fetched.log]
       ELSE IF fetched.err # ""
       THEN [result |-> ExecutionResult(Null, <<fetched.err>>, TRUE), exception |-> "",
             calls |-> fetched.log]
       ELSE [result |-> ExecutionResult(fetched.results[1].value, <<>>, FALSE),
             exception |-> "", calls |-> fetched.log]

-----------------------------------------------------------------------------
(* Table contents *)

Keys == {1, 2}

\* a join of one column leaves the second column of a table alone
KeyPairs(join) ==
    IF Len(join) > 1 THEN {<<1, 1>>, <<1, 2>>, <<2, 1>>} ELSE {<<1, 1>>, <<2, 1>>}

SeqsUpTo(S, n) == UNION {[1..m -> S] : m \in 0..n}

author_rows(pairs) ==
    [i \in DOMAIN pairs |-> [id |-> Scalar(pairs[i][1]), name |-> Scalar(pairs[i][2])]]

book_rows(pairs) ==
    [i \in DOMAIN pairs |->
        [id |-> Scalar(i), author_id |-> Scalar(pairs[i][1]), title |-> Scalar(pairs[i][2])]]

Joins ==
    {<<<<"id", "authorId">>>>,
     <<<<"id", "authorId">>, <<"name", "title">>>>,
     <<<<"name", "title">>, <<"id", "authorId">>>>}

-----------------------------------------------------------------------------
(* SpecJoin: JoinType.fetch on Author for the selections { name books { id } } *)

books_selection ==
    Request("books", Fields("Author")["books"], <<>>,
            <<Request("id", Fields("Book")["id"], <<>>, <<>>, <<>>)>>, <<>>)

jrequest ==
    Request("authors", NoField, <<>>,
            <<Request("name", Fields("Author")["name"], <<>>, <<>>, <<>>), books_selection>>,
            <<>>)

JoinInit ==
    /\ books_join \in Joins
    /\ books_policy \in Policies
    /\ fault = "none"
    /\ internal_fields = {}
    /\ all_authors \in {author_rows(pairs) : pairs \in SeqsUpTo(KeyPairs(books_join), MaxParents)}
    /\ all_books \in {book_rows(pairs) : pairs \in SeqsUpTo(KeyPairs(books_join), MaxChildren)}
    /\ jpc = "start"
    /\ jresults = <<>>
    /\ jindex = <<>>
    /\ jfetched = <<>>
    /\ jrow = 0
    /\ jerror = ""
    /\ jcalls = <<>>
    /\ jreturn = <<>>
    /\ source = <<>>
    /\ doc = parse(<<>>)
    /\ pc = "idle"
    /\ doc_request = NoRequest
    /\ calls = <<>>
    /\ outcome = NoResult
    /\ exception = ""
    /\ OthersIdle

\* lines 367-389
FetchImmediates ==
    /\ jpc = "start"
    /\ jresults' = fetch_rows("Author", jrequest, all_authors)
    /\ jcalls' = Append(jcalls, Call("fetch_immediates", <<>>, "Author",
                        selection_keys(immediate_selections_of(jrequest, "Author"))))
    /\ jpc' = "fetched"
    /\ UNCHANGED <<config, evars, jindex, jfetched, jrow, jerror, jreturn, ovars>>

\* line 392
FetchChildren ==
    /\ jpc = "fetched"
    /\ LET children == Relationship_fetch(books_selection, all_authors, <<"books">>)
       IN /\ jfetched' = children.results
          /\ jindex' = children.index
          /\ jcalls' = jcalls \o children.log
    /\ jpc' = "attach"
    /\ UNCHANGED <<config, evars, jresults, jrow, jerror, jreturn, ovars>>

\* lines 393-394, one parent row
AttachNext ==
    /\ jpc = "attach"
    /\ jrow < Len(jresults)
    /\ LET got == RelationshipResults_get(jindex, books_selection.field, jresults[jrow + 1])
       IN IF got.err # ""
          THEN /\ jerror' = got.err
               /\ jpc' = "raised"
               /\ UNCHANGED <<jresults, jrow>>
          ELSE /\ jresults' = [jresults EXCEPT
                                  ![jrow + 1] = (books_selection.key :> got.value) @@ @]
               /\ jrow' = jrow + 1
               /\ UNCHANGED <<jerror, jpc>>
    /\ UNCHANGED <<config, evars, jindex, jfetched, jcalls, jreturn, ovars>>

\* lines 396-402
ReturnResults ==
    /\ jpc = "attach"
    /\ jrow = Len(jresults)
    /\ jreturn' = to_results(jrequest, jresults)
    /\ jpc' = "done"
    /\ UNCHANGED <<config, evars, jresults, jindex, jfetched, jrow, jerror, jcalls, ovars>>

JoinNext == FetchImmediates \/ FetchChildren \/ AttachNext \/ ReturnResults

SpecJoin == JoinInit /\ [][JoinNext]_vars

-----------------------------------------------------------------------------
(* Claims on the relationship join, under SpecJoin *)

attr_of(type, field_name) == Fields(type)[field_name].attr

\* the child values of the rows of the book table whose child-side join fields equal,
\* pairwise in join order, the parent-side join fields of author row r; in table order
matching_children(r) ==
    LET matches(book) ==
            \A i \in DOMAIN books_join :
                book[attr_of("Book", books_join[i][2])]
                    = all_authors[r][attr_of("Author", books_join[i][1])]
        rows == SelectSeq(all_books, matches)
    IN [i \in DOMAIN rows |-> Object([id |-> rows[i].id])]

attaching == jpc \in {"attach", "raised", "done"}

\* C25: the fetch of the children returns one Result for each row of the book table, in
\* the order of the table, whose value has the requested key id alone, with the id of
\* the row, and whose join values are the row's values of the child-side join fields,
\* in the order of the join; the fetch of the parents returns one Result for each row of
\* the author table, in order, whose value has the keys name and books alone, with the
\* row's name and what the row was given for books, and whose join values are empty.
C25_ResultsHoldRequestedKeysAndJoinValues ==
    /\ attaching =>
          /\ Len(jfetched) = Len(all_books)
          /\ \A r \in DOMAIN jfetched :
                /\ DOMAIN jfetched[r].value.f = {"id"}
                /\ jfetched[r].value.f["id"] = all_books[r].id
                /\ jfetched[r].join_values
                      = [i \in DOMAIN books_join |->
                            all_books[r][attr_of("Book", books_join[i][2])]]
    /\ jpc = "done" =>
          /\ Len(jreturn) = Len(all_authors)
          /\ \A r \in DOMAIN jreturn :
                /\ DOMAIN jreturn[r].value.f = {"name", "books"}
                /\ jreturn[r].value.f["name"] = all_authors[r].name
                /\ jreturn[r].value.f["books"] = jresults[r]["books"]
                /\ jreturn[r].join_values = <<>>

\* two authors and three books joined on name and title, then on id and authorId: the
\* books come with the two join values in that order
C25_Witness ==
    /\ jpc = "done"
    /\ books_join = <<<<"name", "title">>, <<"id", "authorId">>>>
    /\ Len(jreturn) = 2
    /\ Len(jfetched) = 3
    /\ jfetched[1].join_values = <<all_books[1].title, all_books[1].author_id>>
    /\ all_books[1].title # all_books[1].author_id
    /\ jfetched[1].join_values # jfetched[3].join_values

\* C26: when some group of the index of the relationship violates the policy of the
\* relationship, whether or not a parent row has the key of the group, the fetch of the
\* parents does not return.
C26_PolicyAppliedToEveryGroup ==
    (attaching /\ \E key \in DOMAIN jindex :
                     process_results(books_policy, jindex[key]).err # "")
        => jpc # "done"

\* C2: every parent row that has been given its value under the relationship's key holds
\* the cardinality policy applied to exactly the children whose join-key tuple equals its
\* own, and a raise comes from the policy applied to exactly those children
C2_CorrelationCorrect ==
    attaching =>
        /\ \A r \in 1..jrow :
              /\ process_results(books_policy, matching_children(r)).err = ""
              /\ jresults[r]["books"] = process_results(books_policy, matching_children(r)).value
        /\ jpc = "raised" => process_results(books_policy, matching_children(jrow + 1)).err # ""
        /\ jpc = "done" =>
              \A r \in DOMAIN jreturn :
                  jreturn[r].value.f["books"]
                      = process_results(books_policy, matching_children(r)).value

C2_Witness ==
    /\ jpc = "done"
    /\ Len(books_join) = 2
    /\ Len(all_authors) = 2
    /\ Len(matching_children(1)) = 2
    /\ Len(matching_children(2)) = 1
    /\ \E b \in DOMAIN all_books :
          /\ all_books[b].author_id = all_authors[1].id
          /\ all_books[b].title # all_authors[1].name

C5_SingleOrNullLaw ==
    (attaching /\ books_policy = "single_or_null") =>
        /\ \A r \in 1..jrow :
              /\ Len(matching_children(r)) <= 1
              /\ Len(matching_children(r)) = 0 => jresults[r]["books"] = Null
              /\ Len(matching_children(r)) = 1 => jresults[r]["books"] = matching_children(r)[1]
        /\ jpc = "raised" => Len(matching_children(jrow + 1)) > 1
        /\ jpc = "done" => \A r \in DOMAIN all_authors : Len(matching_children(r)) <= 1

C5_Witness ==
    /\ books_policy = "single_or_null"
    /\ jpc = "raised"
    /\ jrow = 1
    /\ jresults[1]["books"] = Null
    /\ Len(matching_children(2)) = 2

\* C6: first_or_null never raises; it gives null for no matching child and otherwise the
\* matching child the fetch returned first
C6_FirstOrNullLaw ==
    (attaching /\ books_policy = "first_or_null") =>
        /\ jpc # "raised"
        /\ \A r \in 1..jrow :
              /\ Len(matching_children(r)) = 0 => jresults[r]["books"] = Null
              /\ Len(matching_children(r)) >= 1 => jresults[r]["books"] = matching_children(r)[1]

C6_Witness ==
    /\ books_policy = "first_or_null"
    /\ jpc = "done"
    /\ Len(all_authors) = 2
    /\ Len(matching_children(1)) = 0
    /\ Len(matching_children(2)) >= 2
    /\ all_books[1].author_id # all_authors[2].id

\* C7: many never raises and always gives a list: the matching children in fetch order,
\* the empty list when there are none
C7_ManyLaw ==
    (attaching /\ books_policy = "many") =>
        /\ jpc # "raised"
        /\ \A r \in 1..jrow :
              /\ jresults[r]["books"].k = "l"
              /\ jresults[r]["books"].items = matching_children(r)

C7_Witness ==
    /\ books_policy = "many"
    /\ jpc = "done"
    /\ Len(all_authors) = 2
    /\ jresults[1]["books"] = ListOf(<<>>)
    /\ Len(jresults[2]["books"].items) >= 2

-----------------------------------------------------------------------------
(* Spec: _execute on the queries below, over every table content within MaxRows *)

Operation(selections) == Node("OperationDefinition", "", "query", <<>>, <<>>, selections)
FragmentDefinition(name, selections) ==
    Node("FragmentDefinition", "", name, <<>>, <<>>, selections)
PlainField(name) == Node("Field", "", name, <<>>, <<>>, <<>>)
ObjectField(alias, name, arguments, selections) ==
    Node("Field", alias, name, arguments, <<>>, selections)
FragmentSpread(name, directives) == Node("FragmentSpread", "", name, <<>>, directives, <<>>)
InlineFragment(directives, selections) ==
    Node("InlineFragment", "", "", <<>>, directives, selections)
Directive(name, if) == [name |-> name, if |-> if]
IdArg(id) == [id |-> Scalar(id)]

\* the queries of tests/execution_test_cases.py with their parameters varied

BasicQueries ==
    {<<Operation(<<ObjectField("", "books", <<>>,
            <<PlainField("id"),
              ObjectField("", "author", <<>>, <<PlainField("name")>>)>>)>>)>>,
     <<Operation(<<ObjectField("", "author", IdArg(1),
            <<PlainField("name"),
              ObjectField("", "books", <<>>, <<PlainField("title")>>)>>)>>)>>,
     <<Operation(<<ObjectField("", "books", <<>>, <<PlainField("name")>>)>>)>>}

AliasQueries ==
    {<<Operation(<<ObjectField(alias, "author", IdArg(id1), <<PlainField("name")>>),
                   ObjectField("heller", "author", IdArg(id2),
                        <<PlainField("id"),
                          ObjectField("", "books", <<>>, <<PlainField("title")>>)>>)>>)>> :
        alias \in {"", "wodehouse"}, id1 \in Keys, id2 \in Keys}

AuthorSelections ==
    {<<PlainField("id")>>, <<PlainField("name")>>,
     <<ObjectField("", "books", <<>>, <<PlainField("id")>>)>>,
     <<ObjectField("", "books", <<>>, <<PlainField("title")>>)>>}

MergeQueries ==
    {<<Operation(<<ObjectField("", "book", IdArg(1),
            <<ObjectField("", "author", <<>>, first),
              ObjectField("", "author", <<>>, second)>>)>>)>> :
        first \in AuthorSelections, second \in AuthorSelections}
    \cup
    {<<Operation(<<ObjectField("", "books", <<>>, <<PlainField("id")>>),
                   ObjectField("", "books", <<>>, <<PlainField("title")>>)>>)>>}

Conditions ==
    {Directive(name, if) : name \in {"skip", "include"}, if \in BOOLEAN}

DirectiveLists ==
    {<<>>} \cup {<<d>> : d \in Conditions}
        \cup {pair \in Conditions \X Conditions : pair[1].name # pair[2].name}

DirectiveQueries ==
    {<<Operation(<<ObjectField("", "book", IdArg(1),
            <<Node("Field", "", "id", <<>>, directives, <<>>), PlainField("title")>>)>>)>> :
        directives \in DirectiveLists}
    \cup
    {<<Operation(<<ObjectField("", "book", IdArg(1),
            <<PlainField("title"),
              Node("Field", "", "author", <<>>, directives, <<PlainField("name")>>)>>)>>)>> :
        directives \in DirectiveLists}

FragmentQueries ==
    {<<Operation(<<ObjectField("a", "book", IdArg(1), <<FragmentSpread("F", <<>>)>> \o first),
                   ObjectField("b", "book", IdArg(1), <<FragmentSpread("F", <<>>)>> \o second)>>),
       FragmentDefinition("F", <<ObjectField("", "author", <<>>, <<PlainField("name")>>)>>)>> :
        first \in {<<>>, <<ObjectField("", "author", <<>>, <<PlainField("id")>>)>>},
        second \in {<<>>, <<ObjectField("", "author", <<>>, <<PlainField("name")>>)>>}}

Queries == BasicQueries \cup AliasQueries \cup MergeQueries \cup DirectiveQueries
                \cup FragmentQueries

\* the tables: the ids vary, a name and a title tell the rows apart
authors_of(ids) == [i \in DOMAIN ids |-> [id |-> Scalar(ids[i]), name |-> Scalar(10 * i + ids[i])]]
books_of(ids) ==
    [i \in DOMAIN ids |->
        [id |-> Scalar(i), author_id |-> Scalar(ids[i]), title |-> Scalar(20 + i)]]

Init ==
    /\ books_join = <<<<"id", "authorId">>>>
    /\ books_policy = "many"
    /\ fault = "none"
    /\ internal_fields = {}
    /\ all_authors \in {authors_of(ids) : ids \in SeqsUpTo(Keys, MaxRows)}
    /\ all_books \in {books_of(ids) : ids \in SeqsUpTo(Keys, MaxRows)}
    /\ source \in Queries
    /\ doc = parse(<<>>)
    /\ pc = "start"
    /\ doc_request = NoRequest
    /\ calls = <<>>
    /\ outcome = NoResult
    /\ exception = ""
    /\ jpc = "idle"
    /\ jresults = <<>>
    /\ jindex = <<>>
    /\ jfetched = <<>>
    /\ jrow = 0
    /\ jerror = ""
    /\ jcalls = <<>>
    /\ jreturn = <<>>
    /\ OthersIdle

Next == Validate \/ RequestFromDocument \/ RootFetch

Spec == Init /\ [][Next]_vars

-----------------------------------------------------------------------------
(* What a query asks for, read off the query itself *)

\* a selection carrying @skip(if: true) or @include(if: false)
excluded(node) ==
    \E i \in DOMAIN node.directives :
        \/ node.directives[i].name = "skip" /\ node.directives[i].if = TRUE
        \/ node.directives[i].name = "include" /\ node.directives[i].if = FALSE

\* the selections with every excluded selection taken out, at every depth
RECURSIVE without_excluded(_)
without_excluded(selections) ==
    IF selections = <<>> THEN <<>>
    ELSE IF excluded(Head(selections)) THEN without_excluded(Tail(selections))
    ELSE <<[Head(selections) EXCEPT !.selections = without_excluded(@)]>>
            \o without_excluded(Tail(selections))

without_excluded_definitions(definitions) ==
    [i \in DOMAIN definitions |->
        [definitions[i] EXCEPT !.selections = without_excluded(@)]]

\* the fields a selection set asks for: fragment spreads and inline fragments replaced by
\* their fields, excluded selections left out
RECURSIVE fields_asked(_, _)
fields_asked(selections, definitions) ==
    IF selections = <<>> THEN <<>>
    ELSE LET node == Head(selections)
             here == IF excluded(node) THEN <<>>
                     ELSE IF node.kind = "Field" THEN <<node>>
                     ELSE IF node.kind = "FragmentSpread"
                     THEN fields_asked(fragment_selections(definitions, node.name), definitions)
                     ELSE fields_asked(node.selections, definitions)
         IN here \o fields_asked(Tail(selections), definitions)

key_of(node) == IF node.alias = "" THEN node.name ELSE node.alias

first_with_key(fields, i) == \A j \in 1..(i - 1) : key_of(fields[j]) # key_of(fields[i])

\* the same request with every key asked for once: one field per key, in the order the
\* keys first appear, with the children of all the fields of that key, in order
RECURSIVE asked_once(_, _)
asked_once(selections, definitions) ==
    LET fields == fields_asked(selections, definitions)
        firsts == SelectSeq([i \in DOMAIN fields |-> i], LAMBDA i: first_with_key(fields, i))
        children(key) ==
            Flatten([i \in DOMAIN fields |->
                IF key_of(fields[i]) = key THEN fields[i].selections ELSE <<>>])
    IN [n \in DOMAIN firsts |->
            LET first == fields[firsts[n]]
            IN Node("Field", first.alias, first.name, first.arguments, <<>>,
                    asked_once(children(key_of(first)), definitions))]

operation_of(definitions) ==
    SelectSeq(definitions, LAMBDA d: d.kind = "OperationDefinition")[1]

fragment_definitions(definitions) ==
    SelectSeq(definitions, LAMBDA d: d.kind = "FragmentDefinition")

asks_twice(selections, definitions) ==
    LET fields == fields_asked(selections, definitions)
    IN \E i, j \in DOMAIN fields : i < j /\ key_of(fields[i]) = key_of(fields[j])

-----------------------------------------------------------------------------
(* Claims on _execute, under Spec *)

returned == pc = "returned"
succeeded == pc = "returned" /\ ~outcome.invalid

fetch_paths == {calls[i].path : i \in {j \in DOMAIN calls : calls[j].op = "fetch_immediates"}}

calls_of(op, path) == {i \in DOMAIN calls : calls[i].op = op /\ calls[i].path = path}

\* the positions of the relationship selections of a request
RECURSIVE relationship_positions(_, _)
relationship_positions(req, path) ==
    UNION {IF req.selections[i].field.rel
           THEN {Append(path, req.selections[i].key)}
                    \cup relationship_positions(req.selections[i],
                                                Append(path, req.selections[i].key))
           ELSE {} : i \in DOMAIN req.selections}

\* C1: no position is fetched twice: fetch_immediates and build_query are called at most
\* once for a position, and in a successful execution exactly once for the root and for
\* every relationship selection of the request, however many rows the tables hold
C1_OneFetchPerPosition ==
    returned =>
        /\ \A i \in DOMAIN calls : Cardinality(calls_of(calls[i].op, calls[i].path)) = 1
        /\ \A i \in DOMAIN calls :
              calls[i].op = "build_query" =>
                  Cardinality(calls_of("fetch_immediates", calls[i].path)) = 1
        /\ succeeded =>
              /\ fetch_paths = {<<>>} \cup relationship_positions(doc_request, <<>>)
              /\ \A p \in relationship_positions(doc_request, <<>>) :
                    Cardinality(calls_of("build_query", p)) = 1

C1_Witness ==
    /\ succeeded
    /\ Len(all_books) = 2
    /\ <<"books", "author">> \in fetch_paths
    /\ Cardinality(calls_of("fetch_immediates", <<"books", "author">>)) = 1

root_selections == operation_of(source).selections

\* the rows the query of a root selection selects
root_rows(node) ==
    build_query(Fields("Root")[node.name].build_query,
                get_argument_values(Fields("Root")[node.name].args, node.arguments), <<>>)

\* C4: when the root selections are single relationships, none with two matching rows,
\* the execution succeeds, and a selection with no matching row is null while its
\* siblings are resolved
C4_SingleWithNoRowIsNull ==
    (returned /\ source \in AliasQueries
        /\ \A i \in DOMAIN root_selections : Len(root_rows(root_selections[i])) <= 1)
    => /\ ~outcome.invalid
       /\ \A i \in DOMAIN root_selections :
             IF Len(root_rows(root_selections[i])) = 0
             THEN outcome.data.f[key_of(root_selections[i])] = Null
             ELSE outcome.data.f[key_of(root_selections[i])].k = "o"

\* C8: at a position that asks for a key twice, the result is the result of the query
\* that asks for every key once with the children of both, and as many calls are made
C8_MergedAsAskedOnce ==
    LET once == <<Operation(asked_once(root_selections, source))>>
        position(key) == SelectSeq(root_selections, LAMBDA node: key_of(node) = key)[1]
    IN (succeeded /\ validate(once) = {}) =>
          /\ ~_execute(once).result.invalid
          /\ \A key \in DOMAIN outcome.data.f :
                (asks_twice(root_selections, source)
                    \/ asks_twice(position(key).selections, source))
                => outcome.data.f[key] = _execute(once).result.data.f[key]
          /\ asks_twice(root_selections, source) => Len(calls) = Len(_execute(once).calls)

\* C28: once the query is parsed, the document stays as parse made it: after the request
\* is built, every selection set of the document, those of its field nodes and of its
\* fragment definitions, holds the selections it held before.
C28_DocumentUnchanged ==
    (pc # "start" /\ ~syntax_error(source)) => doc = parse(source)

\* the query that asks for one root selection alone
alone(node) == <<Operation(<<node>>)>> \o fragment_definitions(source)

different_aliases(i, j) ==
    /\ i # j
    /\ root_selections[i].kind = "Field"
    /\ root_selections[j].kind = "Field"
    /\ root_selections[i].name = root_selections[j].name
    /\ key_of(root_selections[i]) # key_of(root_selections[j])

\* C9: two root selections of one field under different aliases are two requests, each
\* with its own arguments, its own call of the query-builder and its own fetch, and
\* each alias holds the value the selection gives when asked for alone
C9_AliasesIndependent ==
    succeeded =>
        \A i, j \in DOMAIN root_selections :
            different_aliases(i, j) =>
                LET node == root_selections[i]
                    key == key_of(node)
                    requests == SelectSeq(doc_request.selections, LAMBDA r: r.key = key)
                IN /\ Len(requests) = 1
                   /\ requests[1].args
                        = get_argument_values(Fields("Root")[node.name].args, node.arguments)
                   /\ \E c \in calls_of("build_query", <<key>>) :
                        calls[c].arg = requests[1].args
                   /\ Cardinality(calls_of("fetch_immediates", <<key>>)) = 1
                   /\ outcome.data.f[key] = _execute(alone(node)).result.data.f[key]

\* C10: the result is the result of the query without the selections that carry
\* @skip(if: true) or @include(if: false), and a selection of a successful book query
\* that carries directives is in the result exactly when every @skip is false and
\* every @include is true
C10_DirectivesRemoveSelections ==
    returned =>
        /\ outcome = _execute(without_excluded_definitions(source)).result
        /\ (succeeded /\ source \in DirectiveQueries) =>
              \A i \in DOMAIN root_selections[1].selections :
                 LET node == root_selections[1].selections[i]
                 IN key_of(node) \in DOMAIN outcome.data.f["book"].f <=> ~excluded(node)

C10_Witness ==
    /\ succeeded
    /\ source \in DirectiveQueries
    /\ \E i \in DOMAIN root_selections[1].selections :
          LET node == root_selections[1].selections[i]
          IN /\ Len(node.directives) = 2
             /\ excluded(node)
             /\ node.directives[1].name = "include"
             /\ node.directives[1].if = TRUE
             /\ key_of(node) \notin DOMAIN outcome.data.f["book"].f

-----------------------------------------------------------------------------
(* SpecExtract: _execute over queries of the extracted fields Author.bookTitles and *)
(* Book.booksBySameAuthor, for every policy of Author.books                         *)

JoinIdle ==
    /\ jpc = "idle"
    /\ jresults = <<>>
    /\ jindex = <<>>
    /\ jfetched = <<>>
    /\ jrow = 0
    /\ jerror = ""
    /\ jcalls = <<>>
    /\ jreturn = <<>>

\* _execute about to run one of the queries, Author.books having one of the policies
\* and the collaborators one of the faults, Book having one of the sets of internal
\* fields
ExecuteInit(queries, policies, faults, internals) ==
    /\ books_join = <<<<"id", "authorId">>>>
    /\ books_policy \in policies
    /\ fault \in faults
    /\ internal_fields \in internals
    /\ all_authors \in {authors_of(ids) : ids \in SeqsUpTo(Keys, MaxRows)}
    /\ all_books \in {books_of(ids) : ids \in SeqsUpTo(Keys, MaxRows)}
    /\ source \in queries
    /\ doc = parse(<<>>)
    /\ pc = "start"
    /\ doc_request = NoRequest
    /\ calls = <<>>
    /\ outcome = NoResult
    /\ exception = ""
    /\ JoinIdle
    /\ OthersIdle

\* { author(id: 1) { bookTitles } }
ExtractedScalarQueries ==
    {<<Operation(<<ObjectField("", "author", IdArg(id), <<PlainField("bookTitles")>>)>>)>> :
        id \in Keys}

\* { book(id: 1) { booksBySameAuthor { title } } }
ExtractedObjectQueries ==
    {<<Operation(<<ObjectField("", "book", IdArg(id),
            <<ObjectField("", "booksBySameAuthor", <<>>, <<PlainField("title")>>)>>)>>)>> :
        id \in Keys}

ExtractQueries == ExtractedScalarQueries \cup ExtractedObjectQueries

ExtractInit == ExecuteInit(ExtractQueries, Policies, {"none"}, {{}})

SpecExtract == ExtractInit /\ [][Next]_vars

\* the query of the relationship an extracted field is extracted from, with the field
\* selected in the children
RECURSIVE with_relationships(_)
with_relationships(selections) ==
    [i \in DOMAIN selections |->
        LET node == selections[i]
        IN IF node.name = "bookTitles"
           THEN ObjectField(node.alias, "books", node.arguments, <<PlainField("title")>>)
           ELSE IF node.name = "booksBySameAuthor"
           THEN ObjectField(node.alias, "author", node.arguments,
                            <<ObjectField("", "books", <<>>, node.selections)>>)
           ELSE [node EXCEPT !.selections = with_relationships(@)]]

\* what a policy gave, with every child object replaced by its value of field x
replaced_by(value, x) ==
    CASE value.k = "null" -> Null
      [] value.k = "o" -> value.f[x]
      [] value.k = "l" -> ListOf([i \in DOMAIN value.items |-> value.items[i].f[x]])

\* C11: the query of an extracted field fails exactly when the query of its relationship
\* fails, with the same errors, and otherwise the extracted field holds what the
\* relationship holds for the same parent row with every child replaced by its value of
\* the extracted field, in the same order
C11_ExtractIsRelationshipMapped ==
    LET relationship == _execute(<<Operation(with_relationships(root_selections))>>).result
        key == root_selections[1].name
    IN returned =>
          /\ outcome.invalid = relationship.invalid
          /\ outcome.errors = relationship.errors
          /\ (~outcome.invalid /\ source \in ExtractedScalarQueries) =>
                outcome.data.f[key].f["bookTitles"]
                    = replaced_by(relationship.data.f[key].f["books"], "title")
          /\ (~outcome.invalid /\ source \in ExtractedObjectQueries) =>
                outcome.data.f[key].f["booksBySameAuthor"]
                    = replaced_by(relationship.data.f[key].f["author"], "books")

C11_Witness ==
    /\ succeeded
    /\ source \in ExtractedScalarQueries
    /\ books_policy = "many"
    /\ Len(all_authors) = 2
    /\ outcome.data.f["author"].f["bookTitles"] = ListOf(<<Scalar(21), Scalar(22)>>)

-----------------------------------------------------------------------------
(* SpecErrors: _execute over texts that are no document, documents that are not  *)
(* valid, documents of two operations or of none, and collaborators that raise   *)

NamedOperation(name, selections) ==
    Node("OperationDefinition", name, "query", <<>>, <<>>, selections)

books_with_author == ObjectField("", "books", <<>>,
                        <<PlainField("id"),
                          ObjectField("", "author", <<>>, <<PlainField("name")>>)>>)

ErrorQueries ==
    {<<Operation(<<books_with_author>>)>>,
     <<Operation(<<ObjectField("", "author", IdArg(1), <<PlainField("name")>>)>>)>>,
     <<NamedOperation("A", <<books_with_author>>),
       NamedOperation("B", <<ObjectField("", "books", <<>>, <<PlainField("id")>>)>>)>>,
     <<Operation(<<books_with_author>>),
       NamedOperation("B", <<ObjectField("", "books", <<>>, <<PlainField("id")>>)>>)>>,
     <<FragmentDefinition("F", <<PlainField("id")>>)>>,
     <<Node("SyntaxError", "", "", <<>>, <<>>, <<>>)>>,
     <<Operation(<<ObjectField("", "books", <<>>, <<PlainField("name")>>)>>)>>,
     <<Operation(<<ObjectField("", "books", <<>>, <<>>)>>)>>,
     <<Operation(<<InlineFragment(<<>>, <<books_with_author>>)>>)>>}

ErrorInit == ExecuteInit(ErrorQueries, {"many"}, {"none"} \cup Faults, {{}})

SpecErrors == ErrorInit /\ [][Next]_vars

\* C12: no exception leaves _execute, and what it returns is either data with no error
\* or errors with no data
C12_ReturnsDataOrErrors ==
    /\ pc # "raised"
    /\ returned =>
          \/ ~outcome.invalid /\ outcome.errors = <<>> /\ outcome.data # Null
          \/ outcome.invalid /\ outcome.errors # <<>> /\ outcome.data = Null

-----------------------------------------------------------------------------
(* SpecReject: _execute over queries of relationships nested to depth three, *)
(* for every policy of Author.books                                          *)

RejectQueries ==
    {<<Operation(<<books_with_author>>)>>,
     <<Operation(<<ObjectField("", "books", <<>>,
            <<PlainField("id"),
              ObjectField("", "author", <<>>,
                    <<ObjectField("", "books", <<>>, <<PlainField("title")>>)>>)>>)>>)>>}
    \cup {<<Operation(<<ObjectField("", "author", IdArg(id),
                            <<PlainField("name"),
                              ObjectField("", "books", <<>>, <<PlainField("title")>>)>>),
                        ObjectField("", "books", <<>>, <<PlainField("id")>>)>>)>> :
            id \in Keys}

RejectInit == ExecuteInit(RejectQueries, Policies, {"none"}, {{}})

SpecReject == RejectInit /\ [][Next]_vars

\* the rows of the child table that match a parent row of the table, by the join of
\* the relationship
children_of(type, field, parent_row, child_rows) ==
    SelectSeq(child_rows,
        LAMBDA child:
            \A j \in DOMAIN field.join :
                parent_row[Fields(type)[field.join[j][1]].attr]
                    = child[Fields(field.target.name)[field.join[j][2]].attr])

\* the policy takes no such number of children
rejected(policy, n) ==
    \/ policy = "single" /\ n # 1
    \/ policy = "single_or_null" /\ n > 1

\* some selection of a relationship, at this level or below, has a parent row among the
\* rows its level fetches whose children the policy rejects
RECURSIVE rejects(_, _, _)
rejects(type, rows, selections) ==
    \E i \in DOMAIN selections :
        LET node == selections[i]
            field == Fields(type)[node.name]
            child_rows == build_query(field.build_query,
                                      get_argument_values(field.args, node.arguments), <<>>)
        IN /\ field.rel
           /\ \/ \E r \in DOMAIN rows :
                    rejected(field.process_results,
                             Len(children_of(type, field, rows[r], child_rows)))
              \/ rejects(field.target.name, child_rows, node.selections)

InvalidQueries ==
    {<<Operation(<<ObjectField("", "books", <<>>, <<PlainField("name")>>)>>)>>,
     <<Operation(<<ObjectField("", "books", <<>>, <<>>)>>)>>,
     <<Operation(<<books_with_author>>),
       NamedOperation("B", <<ObjectField("", "books", <<>>, <<PlainField("id")>>)>>)>>,
     <<FragmentDefinition("F", <<PlainField("id")>>)>>}

ValidationMessages ==
    {"Cannot query field", "must have a sub selection", "must not have a sub selection",
     "Unknown directive", "This anonymous operation must be the only defined operation",
     "Fragment is never used"}

\* C14: for a document that is not valid, no request is built, build_query and
\* fetch_immediates are never called, and _execute returns the validation errors and no
\* data
C14_InvalidDocumentIsNotFetched ==
    source \in InvalidQueries =>
        /\ calls = <<>>
        /\ pc \in {"start", "returned"}
        /\ doc_request = NoRequest
        /\ returned =>
              /\ outcome.invalid
              /\ outcome.errors # <<>>
              /\ Range(outcome.errors) \subseteq ValidationMessages
              /\ outcome.data = Null

C14_Witness ==
    /\ returned
    /\ source = <<Operation(<<ObjectField("", "books", <<>>, <<>>)>>)>>
    /\ source \in InvalidQueries \cap ErrorQueries
    /\ Len(all_books) = 2
    /\ fault = "none"
    /\ outcome.invalid
    /\ calls = <<>>

-----------------------------------------------------------------------------
(* SpecAlias: _execute over queries that give a plain field an alias, beside a *)
(* relationship in the parent and inside a relationship in the child           *)

AliasedField(alias, name) == Node("Field", alias, name, <<>>, <<>>, <<>>)

\* the aliases a query can give: none, the names of join fields, and names that begin
\* as the keys of the join selections do
ChildAliases == {"", "authorId", "id", "_graphjoiner_joinToParentKey_authorId"}
ParentAliases == {"", "authorId", "id", "_graphjoiner_joinToChildrenKey_id"}

\* { author(id: 1) { books { authorId: title } } }
ChildAliasQueries ==
    {<<Operation(<<ObjectField("", "author", IdArg(id),
            <<ObjectField("", "books", <<>>, <<AliasedField(alias, name)>>)>>)>>)>> :
        id \in Keys, alias \in ChildAliases, name \in {"title", "id"}}

\* { author(id: 1) { id: name books { title } } }
ParentAliasQueries ==
    {<<Operation(<<ObjectField("", "author", IdArg(id),
            <<AliasedField(alias, "name"),
              ObjectField("", "books", <<>>, <<PlainField("title")>>)>>)>>)>> :
        id \in Keys, alias \in ParentAliases}

AliasInit == ExecuteInit(ChildAliasQueries \cup ParentAliasQueries, {"many"}, {"none"}, {{}})

SpecAlias == AliasInit /\ [][Next]_vars

\* the selections with no alias
RECURSIVE without_aliases(_)
without_aliases(selections) ==
    [i \in DOMAIN selections |->
        [selections[i] EXCEPT !.alias = "", !.selections = without_aliases(@)]]

\* the data of the selections without aliases, with every value under the key of its
\* selection
RECURSIVE under_keys(_, _)
under_keys(value, selections) ==
    CASE value.k = "o" ->
            Object([key \in {key_of(selections[i]) : i \in DOMAIN selections} |->
                LET node == selections[CHOOSE i \in DOMAIN selections :
                                            key_of(selections[i]) = key]
                IN under_keys(value.f[node.name], node.selections)])
      [] value.k = "l" ->
            ListOf([i \in DOMAIN value.items |-> under_keys(value.items[i], selections)])
      [] OTHER -> value

\* C15: whatever alias a plain field is given, in the parent of a relationship or in its
\* child, the execution gives what it gives without the alias, the value of the field
\* under the alias: the same children with the same parents
C15_AliasLeavesJoinAlone ==
    LET plain == _execute(<<Operation(without_aliases(root_selections))>>).result
    IN returned =>
          /\ outcome.invalid = plain.invalid
          /\ ~outcome.invalid => outcome.data = under_keys(plain.data, root_selections)

-----------------------------------------------------------------------------
(* SpecInternal: _execute with Book.authorId declared internal or not, over   *)
(* queries that select it and queries that join through it                    *)

InternalQueries ==
    {<<Operation(<<ObjectField("", "books", <<>>,
            <<PlainField("title"), PlainField("authorId")>>)>>)>>,
     <<Operation(<<ObjectField("", "books", <<>>,
            <<PlainField("title"),
              ObjectField("", "author", <<>>, <<PlainField("name")>>)>>)>>)>>,
     <<Operation(<<ObjectField("", "books", <<>>,
            <<PlainField("title"),
              ObjectField("", "author", <<>>,
                    <<ObjectField("", "books", <<>>, <<PlainField("authorId")>>)>>)>>)>>)>>}
    \cup {<<Operation(<<ObjectField("", "author", IdArg(id),
                <<ObjectField("", "books", <<>>, <<PlainField("title")>>)>>)>>)>> :
            id \in Keys}

InternalInit == ExecuteInit(InternalQueries, {"many"}, {"none"}, {{}, {"authorId"}})

SpecInternal == InternalInit /\ [][Next]_vars

\* the selections select the field of the type, at this level or below
RECURSIVE selects(_, _, _)
selects(selections, type, name) ==
    \E i \in DOMAIN selections :
        \/ selections[i].name = name /\ type = "Book"
        \/ /\ selections[i].selections # <<>>
           /\ selects(selections[i].selections,
                      Fields(type)[selections[i].name].target.name, name)

\* C16: an internal field is no field of the published type; a query that selects it is
\* rejected by validation, with no data and no fetch; and a relationship that joins
\* through it gives every parent row its matching children
C16_InternalFieldJoinsUnpublished ==
    /\ \A name \in internal_fields : name \notin published_fields("Book")
    /\ \A name \in internal_fields :
          (returned /\ selects(root_selections, "Root", name)) =>
              /\ outcome.invalid
              /\ outcome.errors = <<"Cannot query field">>
              /\ outcome.data = Null
              /\ calls = <<>>
    /\ (returned /\ root_selections[1].name = "author") =>
          LET authors == root_rows(root_selections[1])
              books == children_of("Author", Fields("Author")["books"], authors[1], all_books)
          IN IF Len(authors) # 1 THEN outcome.invalid
             ELSE /\ ~outcome.invalid
                  /\ outcome.data.f["author"].f["books"]
                        = ListOf([i \in DOMAIN books |-> Object([title |-> books[i].title])])
    /\ (returned /\ source = <<Operation(<<ObjectField("", "books", <<>>,
                        <<PlainField("title"),
                          ObjectField("", "author", <<>>, <<PlainField("name")>>)>>)>>)>>) =>
          IF rejects("Root", <<<<>>>>, root_selections) THEN outcome.invalid
          ELSE /\ ~outcome.invalid
               /\ outcome.data.f["books"] =
                    ListOf([i \in DOMAIN all_books |->
                        Object([title |-> all_books[i].title,
                                author |-> Object([name |->
                                    children_of("Book", Fields("Book")["author"],
                                                all_books[i], all_authors)[1].name])])])

C16_Witness ==
    /\ succeeded
    /\ internal_fields = {"authorId"}
    /\ Fields("Author")["books"].join = <<<<"id", "authorId">>>>
    /\ root_selections[1].name = "author"
    /\ Len(all_authors) = 2
    /\ Len(outcome.data.f["author"].f["books"].items) = 2

-----------------------------------------------------------------------------
(* declarative/__init__.py: the child query of a declared relationship *)

MaxArgs == 3

\* the arguments a relationship can declare, and whether the type of each is a
\* declarative input type (with a __read__) or a plain GraphQL type
ArgTypes == [nameStartsWith |-> "GraphQLString", where |-> "InputObjectType"]

ArgValues == {"P", "J"}

RequestContext == "context"

ParentQuery == <<"parent_query">>

\* _execute and JoinType.fetch are not running
ExecuteIdle ==
    /\ books_join = <<<<"id", "authorId">>>>
    /\ books_policy = "many"
    /\ fault = "none"
    /\ internal_fields = {}
    /\ all_authors = <<>>
    /\ all_books = <<>>
    /\ source = <<>>
    /\ doc = parse(<<>>)
    /\ pc = "idle"
    /\ doc_request = NoRequest
    /\ calls = <<>>
    /\ outcome = NoResult
    /\ exception = ""
    /\ JoinIdle

\* a call of one of the user's functions: the query it received, the argument value
\* and the context it was given, the query it returned
QueryCall(fn, received, value, context, query) ==
    [fn |-> fn, received |-> received, value |-> value, context |-> context,
     returned |-> query]

\* the user's functions change the query each in its own way: the query is the
\* sequence of what was done to it
select_query(parent_query, context) == <<[fn |-> "build_query", value |-> parent_query]>>

filter_query(query) == Append(query, [fn |-> "filter", value |-> ""])

refine_query(n, query, arg_value, context) ==
    Append(query, [fn |-> "refine_query" \o ToString(n), value |-> arg_value])

\* read_arg_value: arg_type.__read__ for a declarative input type, else the identity
read_arg_value(arg_type, arg_value) ==
    IF arg_type = "InputObjectType" THEN "read " \o arg_value ELSE arg_value

arg_never_supplied(arg_name, args) == FALSE

\* `arg_name in args`
arg_supplied(arg_name, args) == arg_name \in DOMAIN args

\* the class body: `_args` is empty, the filter is given or not
RefineInit ==
    /\ _args = <<>>
    /\ _filter \in {"", "filter"}
    /\ dpc = "define"
    /\ dargs = <<>>
    /\ dquery = <<>>
    /\ darg = 0
    /\ dlog = <<>>
    /\ MutationIdle
    /\ SubtypeIdle
    /\ ExecuteIdle

\* RelationshipDefinition._add_arg: the n-th registration
add_arg ==
    /\ dpc = "define"
    /\ Len(_args) < MaxArgs
    /\ \E arg_name \in DOMAIN ArgTypes :
         _args' = Append(_args, [arg_name |-> arg_name, arg_type |-> ArgTypes[arg_name],
                                 refine_query |-> Len(_args) + 1])
    /\ UNCHANGED <<config, evars, jvars, mvars, svars, _filter, dpc, dargs, dquery, darg, dlog>>

\* Relationship.fetch calls build_query_with_args(request.args, parent_query,
\* request.context), which calls build_query; request.args has a value for some of the
\* declared arguments
call_build_query ==
    /\ dpc = "define"
    /\ \E supplied \in SUBSET {_args[i].arg_name : i \in DOMAIN _args} :
         \E args \in [supplied -> ArgValues] :
            dargs' = args
    /\ dquery' = select_query(ParentQuery, RequestContext)
    /\ dlog' = Append(dlog, QueryCall("build_query", ParentQuery, "", RequestContext, dquery'))
    /\ dpc' = "filter"
    /\ UNCHANGED <<config, evars, jvars, mvars, svars, _args, _filter, darg>>

\* `if self._filter is not None: query = self._filter(query)`
call_filter ==
    /\ dpc = "filter"
    /\ IF _filter # ""
       THEN /\ dquery' = filter_query(dquery)
            /\ dlog' = Append(dlog, QueryCall("filter", dquery, "", "", dquery'))
       ELSE UNCHANGED <<dquery, dlog>>
    /\ darg' = 1
    /\ dpc' = "refine"
    /\ UNCHANGED <<config, evars, jvars, mvars, svars, _args, _filter, dargs>>

\* one turn of `for arg_name, _, refine_query in self._args`
call_refine_query ==
    /\ dpc = "refine"
    /\ darg <= Len(_args)
    /\ LET arg == _args[darg]
       IN IF arg_supplied(arg.arg_name, dargs)
          THEN LET value == read_arg_value(arg.arg_type, dargs[arg.arg_name])
               IN /\ dquery' = refine_query(arg.refine_query, dquery, value, RequestContext)
                  /\ dlog' = Append(dlog, QueryCall("refine_query" \o ToString(arg.refine_query),
                                                    dquery, value, RequestContext, dquery'))
          ELSE UNCHANGED <<dquery, dlog>>
    /\ darg' = darg + 1
    /\ UNCHANGED <<config, evars, jvars, mvars, svars, _args, _filter, dpc, dargs>>

\* build_query_with_args returns the query and Relationship.fetch hands it to
\* self.target.fetch
call_target_fetch ==
    /\ dpc = "refine"
    /\ darg > Len(_args)
    /\ dlog' = Append(dlog, QueryCall("fetch", dquery, "", RequestContext, <<>>))
    /\ dpc' = "fetched"
    /\ UNCHANGED <<config, evars, jvars, mvars, svars, _args, _filter, dargs, dquery, darg>>

RefineNext == add_arg \/ call_build_query \/ call_filter \/ call_refine_query \/ call_target_fetch

SpecRefine == RefineInit /\ [][RefineNext]_vars

\* the calls the claim prescribes for a fetch: the query-builder, the filter if there
\* is one, the refiners of the supplied arguments in registration order, the fetch
supplied_refiners ==
    SelectSeq(_args, LAMBDA arg: arg.arg_name \in DOMAIN dargs)

prescribed_calls ==
    <<"build_query">> \o (IF _filter = "" THEN <<>> ELSE <<"filter">>)
    \o [i \in DOMAIN supplied_refiners |->
            "refine_query" \o ToString(supplied_refiners[i].refine_query)]
    \o <<"fetch">>

\* C17: the calls made for the child query of a relationship are, at every moment, the
\* first of: the query-builder, then the static filter if there is one, then the
\* refiners of the arguments the query supplied, in registration order, then one fetch
\* of the target; each call after the first receives the query the call before it
\* returned, a refiner receives the read value of its own argument, and once the
\* fetch has been made the calls are all of these.
C17_QueryBuiltInOrderBeforeFetch ==
    /\ Len(dlog) <= Len(prescribed_calls)
    /\ \A i \in DOMAIN dlog :
        /\ dlog[i].fn = prescribed_calls[i]
        /\ i > 1 => dlog[i].received = dlog[i - 1].returned
        /\ (i > 1 /\ i - (IF _filter = "" THEN 1 ELSE 2) \in DOMAIN supplied_refiners) =>
              LET arg == supplied_refiners[i - (IF _filter = "" THEN 1 ELSE 2)]
              IN dlog[i].value = read_arg_value(arg.arg_type, dargs[arg.arg_name])
    /\ dpc = "fetched" => Len(dlog) = Len(prescribed_calls)

\* a fetch made after a filter and two refiners, an argument between them in the
\* registration not having been supplied
C17_Witness ==
    /\ dpc = "fetched"
    /\ _filter # ""
    /\ Len(_args) = 3
    /\ Len(supplied_refiners) = 2
    /\ _args[2].arg_name \notin DOMAIN dargs
    /\ Len(dlog) = 5

-----------------------------------------------------------------------------
(* Mutations: _execute on a mutation operation, JoinType.fetch on the root    *)
(* step by step, the mutation fields writing to the box of                    *)
(* tests/declarative/test_declarative_mutations.py                            *)

MaxMutations == 3

MutationValues == {1, 2}

MutationAliases == <<"first", "second", "third", "fourth">>

MutationOperation(selections) ==
    Node("OperationDefinition", "", "mutation", <<>>, <<>>, selections)

ValueArg(value) == [value |-> Scalar(value)]

\* first: updateBox(value: 1) { value }
MutationField(n, name, value) ==
    ObjectField(MutationAliases[n], name, ValueArg(value), <<PlainField("value")>>)

MutationFields ==
    {[n \in DOMAIN names |-> MutationField(n, names[n][1], names[n][2])] :
        names \in SeqsUpTo({"updateBox", "addToBox"} \X MutationValues, MaxMutations)}
    \ {<<>>}

\* mutation { first: ... second: ... third: ... }, and the same with the second field
\* in a fragment: mutation { first: ... ...Second third: ... }
MutationQueries ==
    {<<MutationOperation(mutation_fields)>> : mutation_fields \in MutationFields}
    \cup {<<MutationOperation([mutation_fields EXCEPT ![2] = FragmentSpread("Second", <<>>)]),
            FragmentDefinition("Second", <<mutation_fields[2]>>)>> :
            mutation_fields \in {m \in MutationFields : Len(m) >= 2}}

\* DictQuery.__select_all__ and DictQuery.__add_arg__: the query is the dict of the
\* arguments
mutation_query(args) == args

\* __mutate__: updateBox writes the value to the box (BoxMutation of the test), addToBox
\* adds the value to the box
__mutate__(name, value, query) ==
    IF name = "update_box" THEN query.value.v ELSE value + query.value.v

MutationInit ==
    /\ books_join = <<<<"id", "authorId">>>>
    /\ books_policy = "many"
    /\ fault = "none"
    /\ internal_fields = {}
    /\ all_authors = <<>>
    /\ all_books = <<>>
    /\ source \in MutationQueries
    /\ doc = parse(<<>>)
    /\ pc = "start"
    /\ doc_request = NoRequest
    /\ calls = <<>>
    /\ outcome = NoResult
    /\ exception = ""
    /\ JoinIdle
    /\ RefineIdle
    /\ MutationIdle
    /\ SubtypeIdle

\* JoinType.fetch, lines 366-389: the root has one row, with no immediate fields
MutationRootFetch ==
    /\ pc = "requested"
    /\ mresult' = fetch_rows("Root", doc_request, <<>>)[1]
    /\ mnext' = 1
    /\ pc' = "fetching"
    /\ UNCHANGED <<config, source, doc, doc_request, calls, outcome, exception, jvars, dvars, svars,
                   box, mquery, mlog>>

\* Relationship.fetch, line 189: the query of the next relationship selection is built
MutationBuildQuery ==
    /\ pc = "fetching"
    /\ mnext <= Len(relationship_selections_of(doc_request))
    /\ LET selection == relationship_selections_of(doc_request)[mnext]
       IN /\ mquery' = mutation_query(selection.args)
          /\ mlog' = Append(mlog, Call("build_query", <<selection.key>>,
                                       selection.field.build_query, selection.args))
    /\ pc' = "built"
    /\ UNCHANGED <<config, source, doc, doc_request, calls, outcome, exception, jvars, dvars, svars,
                   box, mnext, mresult>>

\* Relationship.fetch, lines 190-202, and lines 393-394: the target is fetched, its
\* __fetch_immediates__ being __mutate__, and the one row it gives is the value of the
\* selection in the row of the root
MutationFetch ==
    /\ pc = "built"
    /\ LET selection == relationship_selections_of(doc_request)[mnext]
       IN /\ box' = __mutate__(selection.field.build_query, box, mquery)
          /\ mlog' = Append(mlog, Call("fetch_immediates", <<selection.key>>,
                                       selection.field.target.name, box'))
          /\ mresult' = (selection.key :>
                            Object([key \in Range(selection_keys(selection.selections)) |->
                                        Scalar(box')])) @@ mresult
    /\ mnext' = mnext + 1
    /\ pc' = "fetching"
    /\ UNCHANGED <<config, source, doc, doc_request, calls, outcome, exception, jvars, dvars, svars,
                   mquery>>

\* lines 396-402 and _execute, lines 76-89
MutationReturn ==
    /\ pc = "fetching"
    /\ mnext > Len(relationship_selections_of(doc_request))
    /\ outcome' = ExecutionResult(to_results(doc_request, <<mresult>>)[1].value, <<>>, FALSE)
    /\ pc' = "returned"
    /\ UNCHANGED <<config, source, doc, doc_request, calls, exception, jvars, ovars>>

MutationNext ==
    \/ Validate
    \/ RequestFromDocument
    \/ MutationRootFetch
    \/ MutationBuildQuery
    \/ MutationFetch
    \/ MutationReturn

SpecMutation == MutationInit /\ [][MutationNext]_vars

\* the root fields of the mutation in the order of the text, a fragment spread standing
\* for the fields of the fragment
mutation_fields_of(definitions) ==
    Flatten([i \in DOMAIN definitions[1].selections |->
                LET node == definitions[1].selections[i]
                IN IF node.kind = "FragmentSpread"
                   THEN fragment_selections(definitions, node.name)
                   ELSE <<node>>])

\* the value of the box after the first n of the fields
RECURSIVE box_after(_, _)
box_after(mutation_fields, n) ==
    IF n = 0 THEN 0
    ELSE LET node == mutation_fields[n]
         IN IF node.name = "updateBox" THEN node.arguments.value.v
            ELSE box_after(mutation_fields, n - 1) + node.arguments.value.v

\* C18: the calls made for a mutation are, at every moment, the first of: the
\* query-builder of the first root field of the text, the mutation of the first, the
\* query-builder of the second, the mutation of the second, and so on; the mutation of
\* the n-th field leaves the box as the first n fields in turn make it, and the value
\* the n-th field gets is that value of the box.
C18_MutationsRunInDocumentOrder ==
    LET mutation_fields == mutation_fields_of(source)
    IN /\ Len(mlog) <= 2 * Len(mutation_fields)
       /\ \A i \in DOMAIN mlog :
            LET n == (i + 1) \div 2
            IN /\ mlog[i].path = <<mutation_fields[n].alias>>
               /\ mlog[i].op = IF i % 2 = 1 THEN "build_query" ELSE "fetch_immediates"
               /\ i % 2 = 0 => mlog[i].arg = box_after(mutation_fields, n)
       /\ pc = "returned" =>
            /\ ~outcome.invalid
            /\ Len(mlog) = 2 * Len(mutation_fields)
            /\ DOMAIN outcome.data.f = {mutation_fields[n].alias : n \in DOMAIN mutation_fields}
            /\ \A n \in DOMAIN mutation_fields :
                  outcome.data.f[mutation_fields[n].alias]
                    = Object([value |-> Scalar(box_after(mutation_fields, n))])

\* three mutations have run, the second in a fragment, each adding to the box
C18_Witness ==
    /\ pc = "returned"
    /\ Len(source) = 2
    /\ Len(mlog) = 6
    /\ \A n \in 1..3 : mutation_fields_of(source)[n].name = "addToBox"
    /\ outcome.data.f["first"] # outcome.data.f["second"]
    /\ box = 4

-----------------------------------------------------------------------------
(* schemas.py: is_subtype *)

MaxCalls == 16

\* the types of graphql: the scalars are single objects, an object type or an input
\* object type is an object of its own, known by its identity, and holds its name and
\* its fields in s_defs; a field of an object type is GraphQLField(type, args)
GraphQLInt == [k |-> "Scalar", name |-> "Int"]
GraphQLString == [k |-> "Scalar", name |-> "String"]
GraphQLNonNull(of_type) == [k |-> "NonNull", of_type |-> of_type]
GraphQLList(of_type) == [k |-> "List", of_type |-> of_type]
GraphQLObjectType(id) == [k |-> "Object", id |-> id]
GraphQLInputObjectType(id) == [k |-> "InputObject", id |-> id]
GraphQLSchema(query, mutation) == [k |-> "Schema", query |-> query, mutation |-> mutation]
GraphQLField(type, args) == [type |-> type, args |-> args]

\* None: get_mutation_type() of a schema without mutations, dict.get of a missing key
None == [k |-> "None"]

\* the keys of a dict in the order the iteration gives them
FieldNames == <<"id", "next", "other">>

keys_of(mapping) ==
    LET present == SelectSeq(FieldNames, LAMBDA name: name \in DOMAIN mapping)
    IN IF s_order = "forward" THEN present ELSE Reverse(present)

\* dict.get(key)
get(mapping, key) == IF key \in DOMAIN mapping THEN mapping[key] ELSE None

\* what a call of the inner is_subtype gives: its value ("True", "False", or
\* "RecursionError" when MaxCalls calls have been made), `seen` after it, and the
\* number of calls made so far
Answer(value, seen, n) == [value |-> value, seen |-> seen, calls |-> n]

RECURSIVE inner_is_subtype(_, _, _, _)
RECURSIVE _is_object_type_subtype(_, _, _, _)
RECURSIVE all_subfields(_, _, _, _, _)
RECURSIVE _is_subfield(_, _, _, _)
RECURSIVE all_subargs(_, _, _, _, _)
RECURSIVE _is_input_object_type_subtype(_, _, _, _)
RECURSIVE all_sub_input_fields(_, _, _, _, _)

\* a _is_subarg that asks the argument of the subtype's field to be a subtype
_is_subarg_covariant(subarg, superarg, seen, n) ==
    IF superarg = None
    THEN Answer(IF subarg.k = "NonNull" THEN "False" ELSE "True", seen, n)
    ELSE IF subarg = None THEN Answer("False", seen, n)
    ELSE inner_is_subtype(subarg, superarg, seen, n)

\* _is_subarg
_is_subarg(subarg, superarg, seen, n) ==
    IF superarg = None
    THEN Answer(IF subarg.k = "NonNull" THEN "False" ELSE "True", seen, n)
    ELSE IF subarg = None THEN Answer("False", seen, n)
    ELSE inner_is_subtype(superarg, subarg, seen, n)

\* all(_is_subarg(...) for arg_name in set(subfield.args.keys()) | set(superfield.args.keys()))
all_subargs(arg_names, subfield, superfield, seen, n) ==
    IF arg_names = <<>> THEN Answer("True", seen, n)
    ELSE LET first == _is_subarg(get(subfield.args, Head(arg_names)),
                                 get(superfield.args, Head(arg_names)), seen, n)
         IN IF first.value # "True" THEN first
            ELSE all_subargs(Tail(arg_names), subfield, superfield, first.seen, first.calls)

\* _is_subfield
_is_subfield(subfield, superfield, seen, n) ==
    LET first == inner_is_subtype(subfield.type, superfield.type, seen, n)
    IN IF first.value # "True" THEN first
       ELSE all_subargs(keys_of(subfield.args @@ superfield.args), subfield, superfield,
                        first.seen, first.calls)

\* all(_is_subfield(subtype.fields[field_name], field) for field_name, field in ...)
all_subfields(field_names, subtype, supertype, seen, n) ==
    IF field_names = <<>> THEN Answer("True", seen, n)
    ELSE LET first == _is_subfield(s_defs[subtype.id].fields[Head(field_names)],
                                   s_defs[supertype.id].fields[Head(field_names)], seen, n)
         IN IF first.value # "True" THEN first
            ELSE all_subfields(Tail(field_names), subtype, supertype, first.seen, first.calls)

\* _is_object_type_subtype
_is_object_type_subtype(subtype, supertype, seen, n) ==
    IF s_defs[subtype.id].name # s_defs[supertype.id].name THEN Answer("False", seen, n)
    ELSE IF ~(DOMAIN s_defs[supertype.id].fields \subseteq DOMAIN s_defs[subtype.id].fields)
    THEN Answer("False", seen, n)
    ELSE all_subfields(keys_of(s_defs[supertype.id].fields), subtype, supertype, seen, n)

\* _is_sub_input_field
_is_sub_input_field(subfield, superfield, seen, n) ==
    IF superfield = None THEN Answer("True", seen, n)
    ELSE IF subfield = None
    THEN Answer(IF superfield.k = "NonNull" THEN "False" ELSE "True", seen, n)
    ELSE inner_is_subtype(subfield, superfield, seen, n)

all_sub_input_fields(field_names, subtype, supertype, seen, n) ==
    IF field_names = <<>> THEN Answer("True", seen, n)
    ELSE LET first == _is_sub_input_field(
                            get(s_defs[subtype.id].fields, Head(field_names)),
                            get(s_defs[supertype.id].fields, Head(field_names)), seen, n)
         IN IF first.value # "True" THEN first
            ELSE all_sub_input_fields(Tail(field_names), subtype, supertype,
                                      first.seen, first.calls)

\* _is_input_object_type_subtype
_is_input_object_type_subtype(subtype, supertype, seen, n) ==
    IF s_defs[subtype.id].name # s_defs[supertype.id].name THEN Answer("False", seen, n)
    ELSE all_sub_input_fields(
            keys_of(s_defs[subtype.id].fields @@ s_defs[supertype.id].fields),
            subtype, supertype, seen, n)

\* a `seen` that knows a pair by its subtype alone
seen_subtype(pair, seen) == \E other \in seen : other[1] = pair[1]

\* `(subtype, supertype) in seen`
in_seen(pair, seen) == pair \in seen

\* the inner is_subtype, lines 22-50
inner_is_subtype(subtype, supertype, seen, n) ==
    IF n >= MaxCalls THEN Answer("RecursionError", seen, n)
    ELSE IF in_seen(<<subtype, supertype>>, seen) THEN Answer("True", seen, n + 1)
    ELSE LET added == seen \cup {<<subtype, supertype>>}
         IN IF subtype = supertype THEN Answer("True", added, n + 1)
            ELSE IF subtype.k = "NonNull"
            THEN IF supertype.k = "NonNull"
                 THEN inner_is_subtype(subtype.of_type, supertype.of_type, added, n + 1)
                 ELSE inner_is_subtype(subtype.of_type, supertype, added, n + 1)
            ELSE IF subtype.k = "List" /\ supertype.k = "List"
            THEN inner_is_subtype(subtype.of_type, supertype.of_type, added, n + 1)
            ELSE IF subtype.k = "Object" /\ supertype.k = "Object"
            THEN _is_object_type_subtype(subtype, supertype, added, n + 1)
            ELSE IF subtype.k = "InputObject" /\ supertype.k = "InputObject"
            THEN _is_input_object_type_subtype(subtype, supertype, added, n + 1)
            ELSE IF subtype.k = "Schema" /\ supertype.k = "Schema"
            THEN LET query == inner_is_subtype(subtype.query, supertype.query, added, n + 1)
                     mutation ==
                        IF supertype.mutation = None
                        THEN Answer("True", query.seen, query.calls)
                        ELSE inner_is_subtype(subtype.mutation, supertype.mutation,
                                              query.seen, query.calls)
                 IN IF query.value = "RecursionError" THEN query
                    ELSE IF mutation.value = "RecursionError" THEN mutation
                    ELSE Answer(IF query.value = "True" /\ mutation.value = "True"
                                THEN "True" ELSE "False",
                                mutation.seen, mutation.calls)
            ELSE Answer("False", added, n + 1)

\* is_subtype: seen = set(), and the inner is_subtype
is_subtype(subtype, supertype) == inner_is_subtype(subtype, supertype, {}, 0)

-----------------------------------------------------------------------------
(* SpecSubtype: is_subtype on the types of two schemas.  Each schema has an object  *)
(* type Object with the fields id and next, an object type Book with the fields id  *)
(* and next, and an input object type Input; next leads from Object to itself or to *)
(* Book, and from Book back to Object.                                               *)

ObjectDef(name, fields) == [name |-> name, fields |-> fields]

\* a dict without the keys whose value is None
without_none(mapping) == [key \in {k \in DOMAIN mapping : mapping[k] # None} |-> mapping[key]]

\* a field without arguments, None for no type
field_of(type) == IF type = None THEN None ELSE GraphQLField(type, <<>>)

\* the types of a schema: its Object `object`, its Book `book`, its Input `input`.
\* shape gives the types of Object.next and Book.next, None for no such field, id the
\* GraphQLField Object.id or None, other the type of Input.other or None
schema_defs(object, book, input, name, shape, id, other) ==
    (object :> ObjectDef(name,
                    without_none([id |-> id, next |-> field_of(shape[1])])))
    @@ (book :> ObjectDef("Book",
                    without_none([id |-> GraphQLField(GraphQLInt, <<>>),
                                  next |-> field_of(shape[2])])))
    @@ (input :> ObjectDef("Input", without_none([id |-> GraphQLInt, other |-> other])))

\* Object.next and Book.next: Object to itself; to itself, non-null; Object to Book and
\* back; back non-null; Object to a list of Book and back
Shapes(object, book) ==
    <<<<GraphQLObjectType(object), GraphQLObjectType(object)>>,
      <<GraphQLNonNull(GraphQLObjectType(object)), GraphQLObjectType(object)>>,
      <<GraphQLObjectType(book), GraphQLObjectType(object)>>,
      <<GraphQLObjectType(book), GraphQLNonNull(GraphQLObjectType(object))>>,
      <<GraphQLList(GraphQLObjectType(book)), GraphQLObjectType(object)>>>>

\* the arguments of Object.id: none, id: Int, id: Int!, id: Input
Args(input) ==
    {<<>>, [id |-> GraphQLInt], [id |-> GraphQLNonNull(GraphQLInt)],
     [id |-> GraphQLInputObjectType(input)]}

\* the schemas whose types refer to themselves and to each other
RecursiveDefs ==
    {schema_defs(1, 2, 5, "Object", subshape, GraphQLField(subid, <<>>), None)
        @@ schema_defs(3, 4, 6, "Object", supershape, superid, None) :
        subshape \in Range(Shapes(1, 2)), supershape \in Range(Shapes(3, 4)),
        subid \in {GraphQLInt, GraphQLNonNull(GraphQLInt)},
        superid \in {None, GraphQLField(GraphQLInt, <<>>),
                     GraphQLField(GraphQLNonNull(GraphQLInt), <<>>)}}

\* the schemas whose Object.id has arguments, or is missing, or whose Object has
\* another name
ArgumentDefs ==
    {schema_defs(1, 2, 5, "Object", IF recursive THEN Shapes(1, 2)[1] ELSE <<None, None>>,
                 subid, None)
        @@ schema_defs(3, 4, 6, name, IF recursive THEN Shapes(3, 4)[1] ELSE <<None, None>>,
                       GraphQLField(GraphQLInt, superargs), other) :
        recursive \in BOOLEAN,
        subid \in {None} \cup {GraphQLField(GraphQLInt, subargs) : subargs \in Args(5)},
        superargs \in Args(6),
        name \in {"Object", "Other"},
        other \in {None, GraphQLNonNull(GraphQLString)}}

\* the types is_subtype is called with, of the schema with the given types
TypesOf(object, book) ==
    {GraphQLInt, GraphQLNonNull(GraphQLInt),
     GraphQLObjectType(object), GraphQLNonNull(GraphQLObjectType(object)),
     GraphQLList(GraphQLObjectType(object)),
     GraphQLList(GraphQLNonNull(GraphQLObjectType(object))),
     GraphQLObjectType(book),
     GraphQLSchema(GraphQLObjectType(object), None),
     GraphQLSchema(GraphQLObjectType(object), GraphQLObjectType(book))}

SubtypeInit ==
    /\ s_defs \in RecursiveDefs \cup ArgumentDefs
    /\ s_order \in {"forward", "backward"}
    /\ s_subtype \in TypesOf(1, 2)
    /\ s_supertype \in TypesOf(3, 4) \cup {s_subtype, GraphQLString}
                        \cup (IF s_subtype.k \in {"NonNull", "List"}
                              THEN {s_subtype.of_type} ELSE {})
                        \cup (IF s_subtype.k \in {"Scalar", "Object", "List"}
                              THEN {GraphQLNonNull(s_subtype)} ELSE {})
    /\ s_pc = "call"
    /\ s_answer = <<>>
    /\ ExecuteIdle
    /\ RefineIdle
    /\ MutationIdle
    /\ SchemasIdle

\* is_subtype(subtype, supertype)
CallIsSubtype ==
    /\ s_pc = "call"
    /\ s_answer' = is_subtype(s_subtype, s_supertype)
    /\ s_pc' = "returned"
    /\ UNCHANGED <<config, evars, jvars, dvars, mvars, gvars, tvars, cvars, s_defs, s_order,
                   s_subtype, s_supertype>>

SubtypeNext == CallIsSubtype

SpecSubtype == SubtypeInit /\ [][SubtypeNext]_vars

yes(subtype, supertype) == is_subtype(subtype, supertype).value = "True"

\* the fields of the supertype are fields of the subtype, with a type that is a subtype
fields_are_subtypes(subtype, supertype) ==
    LET subfields == s_defs[subtype.id].fields
        superfields == s_defs[supertype.id].fields
    IN /\ s_defs[subtype.id].name = s_defs[supertype.id].name
       /\ DOMAIN superfields \subseteq DOMAIN subfields
       /\ \A name \in DOMAIN superfields : yes(subfields[name].type, superfields[name].type)

\* an argument of the supertype's field is an argument of the subtype's field, with a
\* type that is a supertype; another argument of the subtype's field is nullable
args_are_supertypes(subtype, supertype) ==
    LET subfields == s_defs[subtype.id].fields
        superfields == s_defs[supertype.id].fields
    IN \A name \in DOMAIN superfields \cap DOMAIN subfields :
          LET subargs == subfields[name].args
              superargs == superfields[name].args
          IN /\ \A arg \in DOMAIN superargs :
                   /\ arg \in DOMAIN subargs
                   /\ yes(superargs[arg], subargs[arg])
             /\ \A arg \in DOMAIN subargs \ DOMAIN superargs : subargs[arg].k # "NonNull"

\* the rules for the types that are no object types
rules_of_wrappers ==
    /\ s_subtype = s_supertype => s_answer.value = "True"
    /\ (s_subtype.k = "NonNull" /\ s_supertype = s_subtype.of_type) => s_answer.value = "True"
    /\ s_supertype = GraphQLNonNull(s_subtype) => s_answer.value = "False"
    /\ (s_subtype.k = "List" /\ s_supertype.k = "List") =>
          (s_answer.value = "True" <=> yes(s_subtype.of_type, s_supertype.of_type))

\* C19, as stated: is_subtype says yes of a type and itself, of NonNull(T) and T, no of
\* T and NonNull(T), of List(A) and List(B) what it says of A and B, and of two object
\* types yes exactly when they have the same name, the subtype has the fields of the
\* supertype, and the type of each is a subtype.
C19_ObjectSubtypeByFieldTypes ==
    s_pc = "returned" =>
        /\ rules_of_wrappers
        /\ (s_subtype.k = "Object" /\ s_supertype.k = "Object" /\ s_subtype # s_supertype) =>
              (s_answer.value = "True" <=> fields_are_subtypes(s_subtype, s_supertype))

\* C19, amended: as above, and of two object types yes exactly when, besides, the
\* arguments of each field of the supertype are arguments of the subtype's field with
\* a type that is a supertype, and the other arguments of the subtype's field are
\* nullable.
C19_ObjectSubtypeByFieldsAndArgs ==
    s_pc = "returned" =>
        /\ rules_of_wrappers
        /\ (s_subtype.k = "Object" /\ s_supertype.k = "Object" /\ s_subtype # s_supertype) =>
              (s_answer.value = "True" <=>
                    /\ fields_are_subtypes(s_subtype, s_supertype)
                    /\ args_are_supertypes(s_subtype, s_supertype))

\* Object with id(id: Int): Int is a subtype of Object with id(id: Int!): Int
C19_Witness ==
    /\ s_pc = "returned"
    /\ s_subtype = GraphQLObjectType(1)
    /\ s_supertype = GraphQLObjectType(3)
    /\ DOMAIN s_defs[1].fields = {"id"}
    /\ s_defs[1].fields.id.args = [id |-> GraphQLInt]
    /\ s_defs[3].fields.id.args = [id |-> GraphQLNonNull(GraphQLInt)]
    /\ s_answer.value = "True"

\* the structural answer: the rules, a pair met again below itself taken to hold
RECURSIVE structural(_, _, _)
structural(subtype, supertype, path) ==
    LET below == path \cup {<<subtype, supertype>>}
    IN IF <<subtype, supertype>> \in path \/ subtype = supertype THEN TRUE
       ELSE IF subtype.k = "NonNull"
       THEN structural(subtype.of_type,
                       IF supertype.k = "NonNull" THEN supertype.of_type ELSE supertype,
                       below)
       ELSE IF subtype.k = "List" /\ supertype.k = "List"
       THEN structural(subtype.of_type, supertype.of_type, below)
       ELSE IF subtype.k = "Object" /\ supertype.k = "Object"
       THEN LET subfields == s_defs[subtype.id].fields
                superfields == s_defs[supertype.id].fields
            IN /\ s_defs[subtype.id].name = s_defs[supertype.id].name
               /\ DOMAIN superfields \subseteq DOMAIN subfields
               /\ \A name \in DOMAIN superfields :
                    /\ structural(subfields[name].type, superfields[name].type, below)
                    /\ \A arg \in DOMAIN superfields[name].args :
                          /\ arg \in DOMAIN subfields[name].args
                          /\ structural(superfields[name].args[arg],
                                        subfields[name].args[arg], below)
                    /\ \A arg \in DOMAIN subfields[name].args \ DOMAIN superfields[name].args :
                          subfields[name].args[arg].k # "NonNull"
       ELSE IF subtype.k = "InputObject" /\ supertype.k = "InputObject"
       THEN LET subfields == s_defs[subtype.id].fields
                superfields == s_defs[supertype.id].fields
            IN /\ s_defs[subtype.id].name = s_defs[supertype.id].name
               /\ \A name \in DOMAIN superfields :
                    IF name \in DOMAIN subfields
                    THEN structural(subfields[name], superfields[name], below)
                    ELSE superfields[name].k # "NonNull"
       ELSE IF subtype.k = "Schema" /\ supertype.k = "Schema"
       THEN /\ structural(subtype.query, supertype.query, below)
            /\ \/ supertype.mutation = None
               \/ structural(subtype.mutation, supertype.mutation, below)
       ELSE FALSE

\* C20: is_subtype returns, whatever the types refer to, and says yes exactly of the
\* pairs the structural rules make subtypes: a pair it meets again, whose first check
\* failed or is still going on, does not make it say yes of types that are no subtypes.
C20_RecursiveTypesGetStructuralAnswer ==
    s_pc = "returned" =>
        /\ s_answer.value \in {"True", "False"}
        /\ s_answer.value = "True" <=> structural(s_subtype, s_supertype, {})

\* two schemas whose Object and Book refer to each other: the query types are no
\* subtypes, the mutation types are none either, the check of the mutation types meets
\* the pair of the query types again and says yes, and is_subtype says no
C20_Witness ==
    /\ s_pc = "returned"
    /\ s_subtype = GraphQLSchema(GraphQLObjectType(1), GraphQLObjectType(2))
    /\ s_supertype = GraphQLSchema(GraphQLObjectType(3), GraphQLObjectType(4))
    /\ "next" \in DOMAIN s_defs[1].fields \cap DOMAIN s_defs[3].fields
    /\ s_defs[1].fields.next.type = GraphQLObjectType(2)
    /\ s_defs[3].fields.next.type = GraphQLObjectType(4)
    /\ ~structural(GraphQLObjectType(1), GraphQLObjectType(3), {})
    /\ ~structural(GraphQLObjectType(2), GraphQLObjectType(4), {})
    /\ inner_is_subtype(GraphQLObjectType(2), GraphQLObjectType(4),
                        is_subtype(GraphQLObjectType(1), GraphQLObjectType(3)).seen,
                        0).value = "True"
    /\ s_answer.value = "False"

-----------------------------------------------------------------------------
(* schemas.py: greatest_common_subtype *)

MaxDepth == 6

\* what a merge gives: the type it returns and the types that exist after it, or the
\* exception it raises: "ValueError", or "RecursionError" when the calls are nested
\* deeper than MaxDepth
Common(type, defs) == [type |-> type, defs |-> defs, raised |-> ""]
CommonRaised(error, defs) == [type |-> None, defs |-> defs, raised |-> error]

\* GraphQLObjectType(name, fields=fields), GraphQLInputObjectType(name=name, fields=fields):
\* a new object
new_type(kind, name, fields, defs) ==
    LET id == Cardinality(DOMAIN defs) + 1
    IN Common([k |-> kind, id |-> id], defs @@ (id :> ObjectDef(name, fields)))

\* GraphQLNonNull(merged), GraphQLList(merged)
wrapped(kind, merged) ==
    IF merged.raised # "" THEN merged
    ELSE [merged EXCEPT !.type = [k |-> kind, of_type |-> @]]

without_non_null(type) == IF type.k = "NonNull" THEN type.of_type ELSE type

\* one more entry of the dict of a generator expression
with_entry(entries, key, merged) == entries @@ (key :> merged.type)

RECURSIVE _common_supertype(_, _, _, _)
RECURSIVE common_superfields(_, _, _, _, _, _)
RECURSIVE then_superfields(_, _, _, _, _, _)

\* _common_superfield
_common_superfield(left, right, defs, depth) ==
    IF left = None THEN Common(right, defs)
    ELSE IF right = None THEN Common(left, defs)
    ELSE _common_supertype(left, right, defs, depth)

then_superfields(field_names, left, right, depth, entries, first) ==
    IF first.raised # "" THEN first
    ELSE common_superfields(Tail(field_names), left, right, first.defs, depth,
                            with_entry(entries, Head(field_names), first))

\* dict((field_name, _common_superfield(...)) for field_name in ...), and the new type
common_superfields(field_names, left, right, defs, depth, entries) ==
    IF field_names = <<>> THEN new_type("InputObject", defs[left.id].name, entries, defs)
    ELSE then_superfields(field_names, left, right, depth, entries,
            _common_superfield(get(defs[left.id].fields, Head(field_names)),
                               get(defs[right.id].fields, Head(field_names)), defs, depth))

\* _common_supertype
_common_supertype(left, right, defs, depth) ==
    IF depth > MaxDepth THEN CommonRaised("RecursionError", defs)
    ELSE IF left = right THEN Common(left, defs)
    ELSE IF left.k = "NonNull" /\ right.k = "NonNull"
    THEN wrapped("NonNull", _common_supertype(left.of_type, right.of_type, defs, depth + 1))
    ELSE IF left.k = "NonNull" \/ right.k = "NonNull"
    THEN _common_supertype(without_non_null(left), without_non_null(right), defs, depth + 1)
    ELSE IF left.k = "List" /\ right.k = "List"
    THEN wrapped("List", _common_supertype(left.of_type, right.of_type, defs, depth + 1))
    ELSE IF left.k = "InputObject" /\ right.k = "InputObject"
    THEN common_superfields(keys_of(defs[left.id].fields @@ defs[right.id].fields),
                            left, right, defs, depth + 1, <<>>)
    ELSE CommonRaised("ValueError", defs)

\* _common_subarg
_common_subarg(left, right, defs, depth) ==
    IF left = None THEN Common(right, defs)
    ELSE IF right = None THEN Common(left, defs)
    ELSE _common_supertype(left, right, defs, depth)

RECURSIVE common_subargs(_, _, _, _, _, _)
RECURSIVE then_subargs(_, _, _, _, _, _)

then_subargs(arg_names, left, right, depth, entries, first) ==
    IF first.raised # "" THEN first
    ELSE common_subargs(Tail(arg_names), left, right, first.defs, depth,
                        with_entry(entries, Head(arg_names), first))

\* dict((arg_name, _common_subarg(...)) for arg_name in ...)
common_subargs(arg_names, left, right, defs, depth, entries) ==
    IF arg_names = <<>> THEN Common(entries, defs)
    ELSE then_subargs(arg_names, left, right, depth, entries,
            _common_subarg(get(left.args, Head(arg_names)), get(right.args, Head(arg_names)),
                           defs, depth))

RECURSIVE _common_subtype(_, _, _, _)
RECURSIVE common_subfields(_, _, _, _, _, _)
RECURSIVE then_subfields(_, _, _, _, _, _)

\* GraphQLField(args=args, type=type)
field_of_merged(args, type) ==
    IF type.raised # "" THEN type ELSE Common(GraphQLField(type.type, args.type), type.defs)

\* the type of the field, once its args are there
then_field_type(left, right, depth, args) ==
    IF args.raised # "" THEN args
    ELSE field_of_merged(args, _common_subtype(left.type, right.type, args.defs, depth))

\* _common_subfield
_common_subfield(left, right, defs, depth) ==
    IF left = None THEN Common(right, defs)
    ELSE IF right = None THEN Common(left, defs)
    ELSE then_field_type(left, right, depth,
            common_subargs(keys_of(left.args @@ right.args), left, right, defs, depth, <<>>))

then_subfields(field_names, left, right, depth, entries, first) ==
    IF first.raised # "" THEN first
    ELSE common_subfields(Tail(field_names), left, right, first.defs, depth,
                          with_entry(entries, Head(field_names), first))

\* dict((field_name, _common_subfield(...)) for field_name in ...), and the new type
common_subfields(field_names, left, right, defs, depth, entries) ==
    IF field_names = <<>> THEN new_type("Object", defs[left.id].name, entries, defs)
    ELSE then_subfields(field_names, left, right, depth, entries,
            _common_subfield(get(defs[left.id].fields, Head(field_names)),
                             get(defs[right.id].fields, Head(field_names)), defs, depth))

\* GraphQLSchema(query=merged)
schema_of_merged(merged) ==
    IF merged.raised # "" THEN merged
    ELSE [merged EXCEPT !.type = GraphQLSchema(@, None)]

\* _common_subtype
_common_subtype(left, right, defs, depth) ==
    IF depth > MaxDepth THEN CommonRaised("RecursionError", defs)
    ELSE IF left = right THEN Common(left, defs)
    ELSE IF left.k = "NonNull" \/ right.k = "NonNull"
    THEN wrapped("NonNull", _common_subtype(without_non_null(left), without_non_null(right),
                                            defs, depth + 1))
    ELSE IF left.k = "List" /\ right.k = "List"
    THEN wrapped("List", _common_subtype(left.of_type, right.of_type, defs, depth + 1))
    ELSE IF left.k = "Object" /\ right.k = "Object"
    THEN common_subfields(keys_of(defs[left.id].fields @@ defs[right.id].fields),
                          left, right, defs, depth + 1, <<>>)
    ELSE IF left.k = "Schema" /\ right.k = "Schema"
    THEN schema_of_merged(_common_subtype(left.query, right.query, defs, depth + 1))
    ELSE CommonRaised("ValueError", defs)

RECURSIVE common_subtype_of_rest(_, _)

\* for type_ in types[1:]: result = _common_subtype(result, type_)
common_subtype_of_rest(result, rest) ==
    IF rest = <<>> \/ result.raised # "" THEN result
    ELSE common_subtype_of_rest(_common_subtype(result.type, Head(rest), result.defs, 1),
                                Tail(rest))

\* greatest_common_subtype
greatest_common_subtype(types, defs) == common_subtype_of_rest(Common(types[1], defs), Tail(types))

-----------------------------------------------------------------------------
(* SpecMerge: greatest_common_subtype on types of two schemas, as               *)
(* TestCommonSubtype._assert_merge of tests/test_schemas.py calls it: on the   *)
(* list, on the reversed list, and then is_subtype of the merged type and each *)
(* type of the list.                                                            *)

\* the arguments of Object.id: none, id or other, nullable or not, id an input object
MergeArgs(input) ==
    {<<>>, [id |-> GraphQLInt], [id |-> GraphQLNonNull(GraphQLInt)],
     [other |-> GraphQLString], [other |-> GraphQLNonNull(GraphQLString)],
     [id |-> GraphQLInputObjectType(input)]}

\* Object.id: missing, Int!, or Int with arguments
MergeIds(input) ==
    {None, GraphQLField(GraphQLNonNull(GraphQLInt), <<>>)}
        \cup {GraphQLField(GraphQLInt, args) : args \in MergeArgs(input)}

\* Object.next and Book.next: none; Object to Book; Object to itself; Object to Book
\* and back
MergeShapes(object, book) ==
    {<<None, None>>,
     <<GraphQLObjectType(book), None>>,
     <<GraphQLObjectType(object), GraphQLObjectType(object)>>,
     <<GraphQLObjectType(book), GraphQLObjectType(object)>>}

MergeDefs ==
    {schema_defs(1, 2, 5, "Object", leftshape, leftid, None)
        @@ schema_defs(3, 4, 6, "Object", rightshape, rightid, other) :
        leftshape \in MergeShapes(1, 2), rightshape \in MergeShapes(3, 4),
        leftid \in MergeIds(5), rightid \in MergeIds(6),
        other \in {None, GraphQLNonNull(GraphQLString)}}

\* the lists greatest_common_subtype is called with
MergeTypes ==
    {<<GraphQLObjectType(1), GraphQLObjectType(3)>>,
     <<GraphQLNonNull(GraphQLObjectType(1)), GraphQLObjectType(3)>>,
     <<GraphQLList(GraphQLObjectType(1)), GraphQLList(GraphQLNonNull(GraphQLObjectType(3)))>>,
     <<GraphQLSchema(GraphQLObjectType(1), None), GraphQLSchema(GraphQLObjectType(3), None)>>,
     <<GraphQLSchema(GraphQLObjectType(1), GraphQLObjectType(2)),
       GraphQLSchema(GraphQLObjectType(3), GraphQLObjectType(4))>>,
     <<GraphQLInt, GraphQLNonNull(GraphQLInt)>>,
     <<GraphQLInt, GraphQLString>>,
     <<GraphQLObjectType(1), GraphQLObjectType(2)>>,
     <<GraphQLObjectType(1), GraphQLObjectType(3), GraphQLNonNull(GraphQLObjectType(1))>>}

MergeInit ==
    /\ s_defs \in MergeDefs
    /\ s_order \in {"forward", "backward"}
    /\ g_types \in MergeTypes
    /\ g_pc = "call"
    /\ g_merged = <<>>
    /\ g_reversed = <<>>
    /\ g_checks = <<>>
    /\ s_subtype = <<>>
    /\ s_supertype = <<>>
    /\ s_pc = "idle"
    /\ s_answer = <<>>
    /\ ExecuteIdle
    /\ RefineIdle
    /\ MutationIdle
    /\ TypesIdle
    /\ ContextIdle

\* what the caller sees of a merge
returned_of(merged) == [type |-> merged.type, raised |-> merged.raised]

\* merged = greatest_common_subtype(types), and greatest_common_subtype(list(reversed(types)))
CallGreatestCommonSubtype ==
    /\ g_pc = "call"
    /\ LET merged == greatest_common_subtype(g_types, s_defs)
           reversed == greatest_common_subtype(Reverse(g_types), merged.defs)
       IN /\ g_merged' = returned_of(merged)
          /\ g_reversed' = returned_of(reversed)
          /\ s_defs' = reversed.defs
    /\ g_pc' = "merged"
    /\ UNCHANGED <<config, evars, jvars, dvars, mvars, tvars, cvars, s_order, s_subtype,
                   s_supertype, s_pc, s_answer, g_types, g_checks>>

\* for type_ in types: is_subtype(merged, type_)
CallIsSubtypeOfEach ==
    /\ g_pc = "merged"
    /\ g_merged.raised = ""
    /\ g_checks' = [i \in 1..Len(g_types) |-> is_subtype(g_merged.type, g_types[i]).value]
    /\ g_pc' = "checked"
    /\ UNCHANGED <<config, evars, jvars, dvars, mvars, tvars, cvars, s_defs, s_order, s_subtype,
                   s_supertype, s_pc, s_answer, g_types, g_merged, g_reversed>>

MergeNext == CallGreatestCommonSubtype \/ CallIsSubtypeOfEach

SpecMerge == MergeInit /\ [][MergeNext]_vars

\* two input types have a common supertype
RECURSIVE have_common_supertype(_, _, _)
have_common_supertype(left, right, path) ==
    LET below == path \cup {<<left, right>>}
    IN IF left = right \/ <<left, right>> \in path THEN TRUE
       ELSE IF left.k = "NonNull" \/ right.k = "NonNull"
       THEN have_common_supertype(without_non_null(left), without_non_null(right), below)
       ELSE IF left.k = "List" /\ right.k = "List"
       THEN have_common_supertype(left.of_type, right.of_type, below)
       ELSE IF left.k = "InputObject" /\ right.k = "InputObject"
       THEN /\ s_defs[left.id].name = s_defs[right.id].name
            /\ \A name \in DOMAIN s_defs[left.id].fields \cap DOMAIN s_defs[right.id].fields :
                  have_common_supertype(s_defs[left.id].fields[name],
                                        s_defs[right.id].fields[name], below)
       ELSE FALSE

\* two types have a common subtype: the fields both have have types with a common
\* subtype, and the arguments both fields have have types with a common supertype
RECURSIVE have_common_subtype(_, _, _)
have_common_subtype(left, right, path) ==
    LET below == path \cup {<<left, right>>}
    IN IF left = right \/ <<left, right>> \in path THEN TRUE
       ELSE IF left.k = "NonNull" \/ right.k = "NonNull"
       THEN have_common_subtype(without_non_null(left), without_non_null(right), below)
       ELSE IF left.k = "List" /\ right.k = "List"
       THEN have_common_subtype(left.of_type, right.of_type, below)
       ELSE IF left.k = "Object" /\ right.k = "Object"
       THEN /\ s_defs[left.id].name = s_defs[right.id].name
            /\ \A name \in DOMAIN s_defs[left.id].fields \cap DOMAIN s_defs[right.id].fields :
                  LET leftfield == s_defs[left.id].fields[name]
                      rightfield == s_defs[right.id].fields[name]
                  IN /\ have_common_subtype(leftfield.type, rightfield.type, below)
                     /\ \A arg \in DOMAIN leftfield.args \cap DOMAIN rightfield.args :
                           have_common_supertype(leftfield.args[arg], rightfield.args[arg], {})
       ELSE IF left.k = "Schema" /\ right.k = "Schema"
       THEN /\ have_common_subtype(left.query, right.query, below)
            /\ \/ left.mutation = None
               \/ right.mutation = None
               \/ have_common_subtype(left.mutation, right.mutation, below)
       ELSE FALSE

\* the types of the list have a common subtype
all_have_common_subtype ==
    \A i, j \in 1..Len(g_types) : have_common_subtype(g_types[i], g_types[j], {})

\* two types are structurally equal: the same kinds, names, fields and arguments
RECURSIVE same_structure(_, _, _)
same_structure(left, right, path) ==
    LET below == path \cup {<<left, right>>}
    IN IF left = right \/ <<left, right>> \in path THEN TRUE
       ELSE IF left.k # right.k THEN FALSE
       ELSE IF left.k \in {"NonNull", "List"}
       THEN same_structure(left.of_type, right.of_type, below)
       ELSE IF left.k = "Schema"
       THEN /\ same_structure(left.query, right.query, below)
            /\ (left.mutation = None) = (right.mutation = None)
            /\ left.mutation = None \/ same_structure(left.mutation, right.mutation, below)
       ELSE IF left.k = "Object"
       THEN /\ s_defs[left.id].name = s_defs[right.id].name
            /\ DOMAIN s_defs[left.id].fields = DOMAIN s_defs[right.id].fields
            /\ \A name \in DOMAIN s_defs[left.id].fields :
                  LET leftfield == s_defs[left.id].fields[name]
                      rightfield == s_defs[right.id].fields[name]
                  IN /\ same_structure(leftfield.type, rightfield.type, below)
                     /\ DOMAIN leftfield.args = DOMAIN rightfield.args
                     /\ \A arg \in DOMAIN leftfield.args :
                           same_structure(leftfield.args[arg], rightfield.args[arg], below)
       ELSE IF left.k = "InputObject"
       THEN /\ s_defs[left.id].name = s_defs[right.id].name
            /\ DOMAIN s_defs[left.id].fields = DOMAIN s_defs[right.id].fields
            /\ \A name \in DOMAIN s_defs[left.id].fields :
                  same_structure(s_defs[left.id].fields[name], s_defs[right.id].fields[name],
                                 below)
       ELSE FALSE

\* C21: for types that have a common subtype, greatest_common_subtype returns a type,
\* returns a structurally equal one for the reversed list, and is_subtype says yes of
\* the merged type and each type of the list.
C21_MergedIsSubtypeOfEach ==
    (g_pc \in {"merged", "checked"} /\ all_have_common_subtype) =>
        /\ g_merged.raised = ""
        /\ g_reversed.raised = ""
        /\ same_structure(g_merged.type, g_reversed.type, {})
        /\ g_pc = "checked" => \A i \in 1..Len(g_types) : g_checks[i] = "True"

\* C30: greatest_common_subtype returns, whatever the types refer to: the calls are
\* never nested deeper than MaxDepth.
C30_MergeTerminates ==
    g_pc \in {"merged", "checked"} =>
        /\ g_merged.raised # "RecursionError"
        /\ g_reversed.raised # "RecursionError"

-----------------------------------------------------------------------------
(* SpecTypes: the published type of a relationship, as tests/test_types.py asks *)
(* for it: Root = JoinType("Root", fields {"value": policy(Target(type), None)}) *)
(* and Root.to_graphql_type().                                                    *)

\* _nullable
_nullable(graphql_type) ==
    IF graphql_type.k = "NonNull" THEN graphql_type.of_type ELSE graphql_type

\* the wrap_type that single, single_or_null, first_or_null and many give a relationship
wrap_type(policy, graphql_type) ==
    CASE policy = "single" -> graphql_type
      [] policy = "single_or_null" -> _nullable(graphql_type)
      [] policy = "first_or_null" -> _nullable(graphql_type)
      [] policy = "many" -> GraphQLNonNull(GraphQLList(graphql_type))

\* Relationship.to_graphql_field: the field, without its resolver
to_graphql_field(policy, target_type) == GraphQLField(wrap_type(policy, target_type), <<>>)

\* what Target(type).to_graphql_type() returns in the tests, and more
TargetTypes ==
    LET nullable == {GraphQLInt, GraphQLString, GraphQLObjectType(1),
                     GraphQLList(GraphQLInt), GraphQLList(GraphQLString),
                     GraphQLList(GraphQLObjectType(1)), GraphQLList(GraphQLNonNull(GraphQLInt))}
    IN nullable \cup {GraphQLNonNull(type) : type \in nullable}

TypesInit ==
    /\ t_policy \in Policies
    /\ t_target \in TargetTypes
    /\ t_pc = "call"
    /\ t_type = <<>>
    /\ s_defs = <<>>
    /\ s_order = "forward"
    /\ s_subtype = <<>>
    /\ s_supertype = <<>>
    /\ s_pc = "idle"
    /\ s_answer = <<>>
    /\ MergeIdle
    /\ ContextIdle
    /\ ExecuteIdle
    /\ RefineIdle
    /\ MutationIdle

\* Root.to_graphql_type(): the non-null object type Root; s_defs is given the type and
\* its fields, as graphql_type.of_type.fields makes them
RootToGraphqlType ==
    /\ t_pc = "call"
    /\ s_defs' = <<ObjectDef("Root", [value |-> to_graphql_field(t_policy, t_target)])>>
    /\ t_type' = GraphQLNonNull(GraphQLObjectType(1))
    /\ t_pc' = "returned"
    /\ UNCHANGED <<config, evars, jvars, dvars, mvars, gvars, cvars, t_policy, t_target,
                   s_order, s_subtype, s_supertype, s_pc, s_answer>>

TypesNext == RootToGraphqlType

SpecTypes == TypesInit /\ [][TypesNext]_vars

\* C22: the field of a single relationship has the nullable type: T for a target of
\* type NonNull(T), and T for a target of type T.
C22_SinglePublishesNullable ==
    (t_pc = "returned" /\ t_policy = "single") =>
        /\ t_target.k = "NonNull" => s_defs[1].fields.value.type = t_target.of_type
        /\ t_target.k # "NonNull" => s_defs[1].fields.value.type = t_target

-----------------------------------------------------------------------------
(* SpecContext: one level of JoinType.fetch whose relationships are declared   *)
(* with args={...} on targets that are DictQuery: the parent query and the     *)
(* child queries are dicts, objects with an identity, held in c_heap.          *)

MaxSiblings == 2

\* the parent query of the level: the first object of the heap
ParentRef == 1

ContextArgNames == <<"nameStartsWith", "genre">>

\* a call: the query it was given (a reference), what the query held then, the
\* argument, the query it returned (a reference, 0 for none)
ContextCall(fn, query, held, arg, ref) ==
    [fn |-> fn, query |-> query, held |-> held, arg |-> arg, returned |-> ref]

\* what a function that builds a query gives: the heap after it, the query it returns
QueryBuilt(heap, ref) == [heap |-> heap, ref |-> ref]

\* an __add_arg__ that writes to the dict it is given, as `args[arg_name] = arg_value`
\* without the copy
__add_arg__in_place(heap, args, arg_name, arg_value) ==
    QueryBuilt([heap EXCEPT ![args] = (arg_name :> arg_value) @@ @], args)

\* DictQuery.__add_arg__: args = args.copy(); args[arg_name] = arg_value; return args
__add_arg__(heap, args, arg_name, arg_value) ==
    LET copy == Append(heap, heap[args])
    IN QueryBuilt([copy EXCEPT ![Len(copy)] = (arg_name :> arg_value) @@ @], Len(copy))

\* build_query of select: target_query = target.__select_all__(), a new empty dict,
\* returned as it is when there is no join_query; the join_query of the model returns
\* the parent query it was given
select_build_query(heap, join_query, parent_query) ==
    LET target_query == Len(heap) + 1
    IN IF join_query = "None" THEN QueryBuilt(Append(heap, <<>>), target_query)
       ELSE QueryBuilt(Append(heap, <<>>), parent_query)

\* the arguments the query supplies to a relationship, in the order of registration
SuppliedArgs ==
    {<<>>}
    \cup {<<[name |-> ContextArgNames[1], value |-> value]>> : value \in ArgValues}
    \cup {<<[name |-> ContextArgNames[2], value |-> value]>> : value \in ArgValues}
    \cup {<<[name |-> ContextArgNames[1], value |-> first],
            [name |-> ContextArgNames[2], value |-> second]>> :
            first \in ArgValues, second \in ArgValues}

Siblings == [join_query : {"None", "parent_query"}, args : SuppliedArgs]

ContextInit ==
    /\ c_heap \in {<<<<>>>>, <<[nameStartsWith |-> "P"]>>}
    /\ c_siblings \in SeqsUpTo(Siblings, MaxSiblings)
    /\ c_pc = "fetch_immediates"
    /\ c_sibling = 0
    /\ c_arg = 0
    /\ c_query = 0
    /\ c_log = <<>>
    /\ s_defs = <<>>
    /\ s_order = "forward"
    /\ s_subtype = <<>>
    /\ s_supertype = <<>>
    /\ s_pc = "idle"
    /\ s_answer = <<>>
    /\ MergeIdle
    /\ TypesIdle
    /\ ExecuteIdle
    /\ RefineIdle
    /\ MutationIdle

ContextUnchanged == <<config, evars, jvars, dvars, mvars, gvars, tvars, s_defs, s_order,
                      s_subtype, s_supertype, s_pc, s_answer>>

\* JoinType.fetch: self._fetch_immediates(immediate_selections, query, request.context)
CallFetchImmediates ==
    /\ c_pc = "fetch_immediates"
    /\ c_log' = Append(c_log, ContextCall("fetch_immediates", ParentRef, c_heap[ParentRef],
                                          <<>>, 0))
    /\ c_sibling' = 1
    /\ c_pc' = IF c_siblings = <<>> THEN "done" ELSE "build_query"
    /\ UNCHANGED <<ContextUnchanged, c_heap, c_siblings, c_arg, c_query>>

\* selection.field.fetch(selection, query), build_query_with_args:
\* query = build_query(parent_query, context=context)
CallBuildQuery ==
    /\ c_pc = "build_query"
    /\ LET built == select_build_query(c_heap, c_siblings[c_sibling].join_query, ParentRef)
       IN /\ c_heap' = built.heap
          /\ c_query' = built.ref
          /\ c_log' = Append(c_log, ContextCall("build_query", ParentRef, c_heap[ParentRef],
                                                <<>>, built.ref))
    /\ c_arg' = 1
    /\ c_pc' = "refine_query"
    /\ UNCHANGED <<ContextUnchanged, c_siblings, c_sibling>>

\* query = refine_query(query, args[arg_name], context=context), the refine_query of
\* RelationshipDefinition.add_arg: self._target.__add_arg__(args, arg_name, arg_value)
CallAddArg ==
    /\ c_pc = "refine_query"
    /\ c_arg <= Len(c_siblings[c_sibling].args)
    /\ LET arg == c_siblings[c_sibling].args[c_arg]
           built == __add_arg__(c_heap, c_query, arg.name, arg.value)
       IN /\ c_heap' = built.heap
          /\ c_query' = built.ref
          /\ c_log' = Append(c_log, ContextCall("__add_arg__", c_query, c_heap[c_query],
                                                arg, built.ref))
    /\ c_arg' = c_arg + 1
    /\ UNCHANGED <<ContextUnchanged, c_siblings, c_pc, c_sibling>>

\* Relationship.fetch: self.target.fetch(child_request, query), whose fetch_immediates
\* is given the query; then the next relationship of the level
CallTargetFetch ==
    /\ c_pc = "refine_query"
    /\ c_arg > Len(c_siblings[c_sibling].args)
    /\ c_log' = Append(c_log, ContextCall("target.fetch", c_query, c_heap[c_query], <<>>, 0))
    /\ c_sibling' = c_sibling + 1
    /\ c_pc' = IF c_sibling = Len(c_siblings) THEN "done" ELSE "build_query"
    /\ UNCHANGED <<ContextUnchanged, c_heap, c_siblings, c_arg, c_query>>

ContextNext == CallFetchImmediates \/ CallBuildQuery \/ CallAddArg \/ CallTargetFetch

SpecContext == ContextInit /\ [][ContextNext]_vars

\* C23: a query given to a call holds ever after what it held when it was given;
\* __add_arg__ returns another query than the one it was given, which holds what that
\* one held and the argument; fetch_immediates of the level and the query-builder of
\* each of its relationships are given the same parent query.
C23_ContextsNeverModifiedInPlace ==
    \A i \in DOMAIN c_log :
        /\ c_heap[c_log[i].query] = c_log[i].held
        /\ c_log[i].fn = "__add_arg__" =>
              /\ c_log[i].returned # c_log[i].query
              /\ c_heap[c_log[i].returned]
                    = (c_log[i].arg.name :> c_log[i].arg.value) @@ c_log[i].held
        /\ c_log[i].fn \in {"fetch_immediates", "build_query"} =>
              /\ c_log[i].query = ParentRef
              /\ c_log[i].held = c_log[1].held

\* two relationships whose query-builder returns the parent query, both refined by an
\* argument the parent query has a value for already
C23_Witness ==
    /\ c_pc = "done"
    /\ Len(c_siblings) = 2
    /\ c_heap[ParentRef] = [nameStartsWith |-> "P"]
    /\ \A n \in 1..2 :
          /\ c_siblings[n].join_query = "parent_query"
          /\ Len(c_siblings[n].args) = 2
          /\ c_siblings[n].args[1].value = "J"
    /\ Cardinality({i \in DOMAIN c_log :
                        c_log[i].fn = "__add_arg__" /\ c_log[i].query = ParentRef}) = 2

-----------------------------------------------------------------------------
(* SpecShared: _execute on queries that ask, at one level, for several         *)
(* relationships joined on the same column of the parent, below a relationship *)
(* the level is itself joined to.                                              *)

\* the selections of an author: Author.books and Author.bookTitles join on Author.id
SharedAuthorSelections ==
    {<<PlainField("id"), ObjectField("", "books", <<>>, <<PlainField("title")>>),
       PlainField("bookTitles")>>,
     <<PlainField("bookTitles"), PlainField("name"),
       ObjectField("", "books", <<>>, <<PlainField("title")>>), PlainField("id")>>,
     <<ObjectField("", "books", <<>>, <<PlainField("title")>>),
       ObjectField("ids", "books", <<>>, <<PlainField("id")>>), PlainField("bookTitles")>>}

\* the selections of a book: Book.author and Book.booksBySameAuthor join on Book.authorId
SharedBookSelections ==
    {<<PlainField("title"), ObjectField("", "author", <<>>, <<PlainField("name")>>),
       ObjectField("", "booksBySameAuthor", <<>>, <<PlainField("title")>>)>>,
     <<ObjectField("", "booksBySameAuthor", <<>>, <<PlainField("id")>>), PlainField("authorId"),
       ObjectField("", "author", <<>>, <<PlainField("id")>>), PlainField("id")>>}

\* { author(id: 1) { id books { title } bookTitles } }, { books { title author { name }
\* booksBySameAuthor { title } } }, { author(id: 1) { books { ... } } }
SharedQueries ==
    {<<Operation(<<ObjectField("", "author", IdArg(id), selections)>>)>> :
        id \in Keys, selections \in SharedAuthorSelections}
    \cup {<<Operation(<<ObjectField("", "books", <<>>, selections)>>)>> :
            selections \in SharedBookSelections}
    \cup {<<Operation(<<ObjectField("", "author", IdArg(id),
                <<ObjectField("", "books", <<>>, selections)>>)>>)>> :
            id \in Keys, selections \in SharedBookSelections}

SharedInit == ExecuteInit(SharedQueries, {"many"}, {"none"}, {{}})

SpecShared == SharedInit /\ [][Next]_vars

\* a level: the type JoinType.fetch is called on and the request it is given
Level(type, request) == [type |-> type, request |-> request]

\* the level a path of keys leads to
RECURSIVE level_at(_, _)
level_at(level, path) ==
    IF path = <<>> THEN level
    ELSE LET selection == CHOOSE s \in Range(level.request.selections) : s.key = Head(path)
             target == selection.field.target
             child_request ==
                [selection EXCEPT !.join_selections = child_join_selections(selection.field)]
         IN level_at(Level(target.name,
                           IF target.kind = "ScalarJoinType"
                           THEN ScalarJoinType_request(target, child_request)
                           ELSE child_request),
                     Tail(path))

\* the selections of a list whose key no selection before them has
first_kept(selections) ==
    LET kept[n \in 0..Len(selections)] ==
            IF n = 0 THEN <<>>
            ELSE IF \E earlier \in 1..(n - 1) : selections[earlier].key = selections[n].key
            THEN kept[n - 1]
            ELSE Append(kept[n - 1], selections[n])
    IN kept[Len(selections)]

\* the requested immediate selections, the join selections of the caller, the
\* parent-join selections of the relationship selections
prescribed_selections(level) ==
    LET requested == level.request.selections
        immediate == SelectSeq(requested, LAMBDA s: ~s.field.rel)
        relationships == SelectSeq(requested, LAMBDA s: s.field.rel)
    IN immediate \o level.request.join_selections
        \o Flatten([i \in DOMAIN relationships |->
                        parent_join_selections(relationships[i].field, level.type)])

\* C24: every call of fetch_immediates is handed the requested immediate selections,
\* then the join selections of the caller, then the parent-join selections of the
\* relationship selections, each key at its first occurrence only: no key twice.
C24_ImmediateSelectionsUniqueByKey ==
    \A i \in DOMAIN calls :
        calls[i].op = "fetch_immediates" =>
            LET level == level_at(Level("Root", doc_request), calls[i].path)
                handed == immediate_selections_of(level.request, level.type)
            IN /\ handed = first_kept(prescribed_selections(level))
               /\ calls[i].arg = selection_keys(handed)
               /\ \A a, b \in DOMAIN calls[i].arg :
                     a # b => calls[i].arg[a] # calls[i].arg[b]

\* the books of an author, asked for their author and the books by the same author:
\* both are joined on authorId, which is asked for once
C24_Witness ==
    /\ pc = "returned"
    /\ \E i \in DOMAIN calls :
          /\ calls[i].op = "fetch_immediates"
          /\ calls[i].path = <<"author", "books">>
          /\ LET level == level_at(Level("Root", doc_request), calls[i].path)
             IN /\ Len(prescribed_selections(level)) = 5
                /\ Len(level.request.join_selections) = 1
          /\ calls[i].arg = <<"authorId", "id", "_graphjoiner_joinToParentKey_authorId",
                              "_graphjoiner_joinToChildrenKey_authorId">>

-----------------------------------------------------------------------------
(* SpecFields: request_from_graphql_document on parsed documents that ask a  *)
(* book for two or three fields, the author among them with and without      *)
(* children, followed by the fetch of the request.                           *)

FieldsNodes ==
    {PlainField("title"), PlainField("author"),
     ObjectField("", "author", <<>>, <<PlainField("id")>>),
     ObjectField("", "author", <<>>, <<PlainField("name")>>)}

FieldsQueries ==
    {<<Operation(<<ObjectField("", "book", IdArg(1), nodes)>>)>> :
        nodes \in [1..2 -> FieldsNodes] \cup [1..3 -> FieldsNodes]}

FieldsInit ==
    /\ books_join = <<<<"id", "authorId">>>>
    /\ books_policy = "many"
    /\ fault = "none"
    /\ internal_fields = {}
    /\ all_authors \in {authors_of(ids) : ids \in SeqsUpTo(Keys, 1)}
    /\ all_books \in {books_of(ids) : ids \in SeqsUpTo(Keys, 1)}
    /\ source \in FieldsQueries
    /\ doc = parse(source)
    /\ pc = "validated"
    /\ doc_request = NoRequest
    /\ calls = <<>>
    /\ outcome = NoResult
    /\ exception = ""
    /\ JoinIdle
    /\ OthersIdle

FieldsNext == RequestFromDocument \/ RootFetch

SpecFields == FieldsInit /\ [][FieldsNext]_vars

request_built == pc \in {"requested", "returned", "raised"}

keys_of_requests(requests) == [i \in DOMAIN requests |-> requests[i].key]
keys_of_nodes(nodes) == [i \in DOMAIN nodes |-> key_of(nodes[i])]

-----------------------------------------------------------------------------
(* SpecExpand: _execute on the fragment queries of tests/execution_test_cases.py *)
(* (lines 353-422), with the spread under a book and at the top of the        *)
(* operation, named, nested and inline, and with every condition on it.       *)

SpreadConditions == {<<>>} \cup {<<d>> : d \in Conditions}

SpreadKinds == {"named", "nested", "inline", "inline of named"}

\* the spread of the fields, and the fragment definitions it needs
Spread(kind, fields, directives, inner) ==
    CASE kind = "named" ->
            [node |-> FragmentSpread("F", directives),
             definitions |-> <<FragmentDefinition("F", fields)>>]
      [] kind = "nested" ->
            [node |-> FragmentSpread("G", directives),
             definitions |-> <<FragmentDefinition("G", <<FragmentSpread("F", inner)>>),
                               FragmentDefinition("F", fields)>>]
      [] kind = "inline" ->
            [node |-> InlineFragment(directives, fields), definitions |-> <<>>]
      [] OTHER ->
            [node |-> InlineFragment(directives, <<FragmentSpread("F", inner)>>),
             definitions |-> <<FragmentDefinition("F", fields)>>]

BookIdentifiers ==
    <<PlainField("title"), ObjectField("", "author", <<>>, <<PlainField("name")>>)>>

RootGubbins == <<ObjectField("", "books", <<>>, <<PlainField("title")>>)>>

\* { book(id: 1) { id ...F } }
SpreadUnderBook(spread) ==
    <<Operation(<<ObjectField("", "book", IdArg(1), <<PlainField("id"), spread.node>>)>>)>>
        \o spread.definitions

\* { book(id: 1) { id } ...F }
SpreadAtTop(spread) ==
    <<Operation(<<ObjectField("", "book", IdArg(1), <<PlainField("id")>>), spread.node>>)>>
        \o spread.definitions

ExpandQueries ==
    {SpreadUnderBook(Spread(kind, BookIdentifiers, directives, inner)) :
        kind \in SpreadKinds, directives \in SpreadConditions, inner \in SpreadConditions}
    \cup
    {SpreadAtTop(Spread(kind, RootGubbins, directives, inner)) :
        kind \in SpreadKinds, directives \in SpreadConditions, inner \in SpreadConditions}

ExpandInit == ExecuteInit(ExpandQueries, {"many"}, {"none"}, {{}})

SpecExpand == ExpandInit /\ [][Next]_vars

\* the fields written inline: in every selection set, each spread replaced by the fields
\* it stands for, and nothing for a spread whose condition is false
RECURSIVE written_inline(_, _)
written_inline(selections, definitions) ==
    LET fields == fields_asked(selections, definitions)
    IN [i \in DOMAIN fields |->
            [fields[i] EXCEPT !.selections = written_inline(@, definitions)]]

\* C29: the execution of a query with a fragment spread or an inline fragment, under a
\* field or at the top of the operation, nested or not, returns what the execution of the
\* query with the fields written inline returns; the fields of a spread whose @skip or
\* @include condition is false are not in the result.
C29_FragmentsExpandedEverywhere ==
    pc \in {"returned", "raised"} =>
        /\ pc = "returned"
        /\ outcome = _execute(<<Operation(written_inline(root_selections, source))>>).result

====
